---- MODULE Spec2Model ----
(***************************************************************************)
(* FLCleaner (src/src/main.rs): the scan coordinator, its root workers and *)
(* sub-workers, the message channel, the consumer (the UI thread's update  *)
(* handler) and the retention step clean_backups, over a small file tree.  *)
(*                                                                         *)
(* Strings are sequences of tokens (a token is one character, or a literal *)
(* chunk such as the marker " (overwritten at "), so that concatenation    *)
(* and parsing are computed and not assumed.  A path is a sequence of      *)
(* names; <<>> is the root "/".                                            *)
(***************************************************************************)
EXTENDS Integers, Sequences, FiniteSets, TLC

(***************************************************************************)
(* Option<T>: None is the empty sequence, Some(x) is <<x>>.                *)
(***************************************************************************)
None == <<>>
Some(x) == <<x>>

Last(s) == s[Len(s)]
Front(s) == SubSeq(s, 1, Len(s) - 1)
Range(s) == {s[i] : i \in 1..Len(s)}

Max2(a, b) == IF a >= b THEN a ELSE b

(* The sequences that list every element of the finite set S exactly once. *)
Orders(S) ==
  {s \in [1..Cardinality(S) -> S] : \A i, j \in 1..Cardinality(S) : s[i] = s[j] => i = j}

(***************************************************************************)
(* The state.                                                              *)
(*   app     the FlBackupCleaner struct of the UI thread (its display log  *)
(*           and text fields are left out); scan_receiver is TRUE for      *)
(*           Some(rx) and FALSE for None                                   *)
(*   chan    the messages sent on the scan's channel and not yet received  *)
(*   coord   the coordinator thread of start_scan with the configuration   *)
(*           it captured                                                   *)
(*   roots   the root workers, one per selected drive, each with its       *)
(*           sub-workers (workers)                                         *)
(*   shared  the Arc<Mutex<..>> values of the scan; poisoned says that a   *)
(*           thread panicked holding the counters' locks                   *)
(*   dirs    the directories that exist (the program creates and removes   *)
(*           none)                                                         *)
(*   files   the regular files that exist                                  *)
(*   user    the inputs the user still makes, in order: scan clicks and    *)
(*           settings applied in the settings window                       *)
(*   hist    what the scan has done so far (history, not program state)    *)
(***************************************************************************)
VARIABLES app, chan, coord, roots, shared, dirs, files, user, hist
vars == <<app, chan, coord, roots, shared, dirs, files, user, hist>>

(***************************************************************************)
(* The file tree.  Names are token sequences.                              *)
(***************************************************************************)
Marker == " (overwritten at "
Digits == {"0", "1", "2", "3", "4", "5", "6", "7", "8", "9"}
DigitVal(c) ==
  CASE c = "0" -> 0 [] c = "1" -> 1 [] c = "2" -> 2 [] c = "3" -> 3 [] c = "4" -> 4
    [] c = "5" -> 5 [] c = "6" -> 6 [] c = "7" -> 7 [] c = "8" -> 8 [] c = "9" -> 9

nHome == <<"home">>
nMnt == <<"mnt">>
nA == <<"a">>
nAB == <<"a", "#", "b">>
nBackup == <<"Backup">>
nHidden == <<".", "cache">>
nD == <<"d">>
nCache == <<"Cache">>
nOld == <<"~", "old">>
nLocked == <<"locked">>
nE == <<"e">>
nBC900 == <<"b", "#", "c", Marker, "9", "h", "0", "0", ")", ".flp">>
nBC1430 == <<"b", "#", "c", Marker, "1", "4", "h", "3", "0", ")", ".flp">>
nC859 == <<"c", Marker, "8", "h", "5", "9", ")", ".flp">>

(* The largest tree: directory listings in read_dir order.  Of its         *)
(* directories those in dirs exist, of its files those in files.           *)
DirListing ==
  (<<>> :> <<nHome>>)
  @@ (<<nHome>> :> <<nA, nAB, nHidden, nD, nOld, nE>>)
  @@ (<<nHome, nA>> :> <<nLocked, nBackup, nCache>>)
  @@ (<<nHome, nA, nBackup>> :> <<nBC900, nBC1430>>)
  @@ (<<nHome, nAB>> :> <<nBackup>>)
  @@ (<<nHome, nAB, nBackup>> :> <<nC859>>)
  @@ (<<nHome, nHidden>> :> <<nBackup>>)
  @@ (<<nHome, nHidden, nBackup>> :> <<nC859>>)
  @@ (<<nHome, nD>> :> <<>>)
  @@ (<<nHome, nA, nCache>> :> <<nBackup>>)
  @@ (<<nHome, nA, nCache, nBackup>> :> <<nC859>>)
  @@ (<<nHome, nOld>> :> <<nBackup>>)
  @@ (<<nHome, nOld, nBackup>> :> <<nC859>>)
  @@ (<<nHome, nA, nLocked>> :> <<nBackup>>)
  @@ (<<nHome, nA, nLocked, nBackup>> :> <<nC859>>)
  @@ (<<nHome, nE>> :> <<nBackup, nD>>)
  @@ (<<nHome, nE, nD>> :> <<nBackup>>)
  @@ (<<nHome, nE, nD, nBackup>> :> <<>>)
  @@ (<<nHome, nE, nBackup>> :> <<nBC900, nC859>>)

AllDirs == DOMAIN DirListing
IsDir(p) == p \in dirs

(* The directories the process has no permission to read or search:        *)
(* fs::read_dir fails on them and on what lies below them.                 *)
Unreadable == {<<nHome, nA, nLocked>>, <<nHome, nA, nLocked, nBackup>>}

(* The files fs::metadata fails on though fs::read_dir lists them.         *)
NoMetadata == {<<nHome, nE, nBackup, nBC900>>}

(* The regular files the tree holds before any deletion, with their sizes. *)
FileSize ==
  (<<nHome, nA, nBackup, nBC900>> :> 3)
  @@ (<<nHome, nA, nBackup, nBC1430>> :> 5)
  @@ (<<nHome, nAB, nBackup, nC859>> :> 7)
  @@ (<<nHome, nHidden, nBackup, nC859>> :> 11)
  @@ (<<nHome, nA, nCache, nBackup, nC859>> :> 13)
  @@ (<<nHome, nOld, nBackup, nC859>> :> 17)
  @@ (<<nHome, nA, nLocked, nBackup, nC859>> :> 19)
  @@ (<<nHome, nE, nBackup, nBC900>> :> 23)
  @@ (<<nHome, nE, nBackup, nC859>> :> 29)
AllFiles == DOMAIN FileSize

(***************************************************************************)
(* BackupFile::new and BackupFile::get_time_value.                         *)
(***************************************************************************)
IsDigit(c) == c \in Digits

(* The regex ^(.+) \(overwritten at (\d{1,2})h(\d{2})\)\.flp$ on a file     *)
(* name: None, or Some of the captures.  The tail of the pattern is        *)
(* anchored at the end of the name, so it is matched from the end; the     *)
(* hour has two digits exactly when a digit stands before its last digit.  *)
(* The `.` of (.+) matches any character but a line feed, and ^ and $ the  *)
(* ends of the name only.                                                  *)
LineFeed == "\n"
DotStar(text) == \A i \in 1..Len(text) : text[i] # LineFeed
DotPlus(text) == text # <<>> /\ \A i \in 1..Len(text) : text[i] # LineFeed
RegexCaptures(file_name) ==
  LET n == Len(file_name)
      tail == /\ n >= 7
              /\ file_name[n] = ".flp"
              /\ file_name[n - 1] = ")"
              /\ IsDigit(file_name[n - 2])
              /\ IsDigit(file_name[n - 3])
              /\ file_name[n - 4] = "h"
              /\ IsDigit(file_name[n - 5])
      minutes == 10 * DigitVal(file_name[n - 3]) + DigitVal(file_name[n - 2])
  IN  IF ~tail THEN None
      ELSE IF file_name[n - 6] = Marker /\ DotPlus(SubSeq(file_name, 1, n - 7))
        THEN Some([project_name |-> SubSeq(file_name, 1, n - 7),
                   hours |-> DigitVal(file_name[n - 5]),
                   minutes |-> minutes])
      ELSE IF n >= 8 /\ IsDigit(file_name[n - 6]) /\ file_name[n - 7] = Marker
                     /\ DotPlus(SubSeq(file_name, 1, n - 8))
        THEN Some([project_name |-> SubSeq(file_name, 1, n - 8),
                   hours |-> 10 * DigitVal(file_name[n - 6]) + DigitVal(file_name[n - 5]),
                   minutes |-> minutes])
      ELSE None

(* fs::metadata(path).len() on the regular files that exist; a file that   *)
(* is not of the tree above has one byte.  MetadataOrDefault is the lookup  *)
(* with a failure read as Some(0).                                         *)
SizeOnDisk(path) == IF path \in AllFiles THEN FileSize[path] ELSE 1
MetadataOrDefault(path, existing) == Some(IF path \in existing THEN SizeOnDisk(path) ELSE 0)
Metadata(path, existing) ==
  IF path \in existing /\ path \notin NoMetadata THEN Some(SizeOnDisk(path)) ELSE None

BackupFile_new(path, existing) ==
  IF path = <<>> THEN None
  ELSE LET file_name == Last(path)
           captures == RegexCaptures(file_name)
           meta == Metadata(path, existing)
       IN  IF Last(file_name) # ".flp" THEN None
           ELSE IF captures = None THEN None
           ELSE IF meta = None THEN None
           ELSE Some([path |-> path,
                      project_name |-> captures[1].project_name,
                      file_size |-> meta[1],
                      parsed_time |-> <<captures[1].hours, captures[1].minutes>>])

get_time_value(b) == b.parsed_time[1] * 60 + b.parsed_time[2]

(***************************************************************************)
(* Path::display and the project key of scan_backup_folder:                *)
(* format!("{}#{}", project_folder.display(), backup_file.project_name).   *)
(***************************************************************************)
RECURSIVE Display(_)
Display(path) ==
  IF path = <<>> THEN <<"/">>
  ELSE IF Len(path) = 1 THEN <<"/">> \o path[1]
  ELSE Display(Front(path)) \o <<"/">> \o Last(path)

ProjectKey(project_folder, project_name) ==
  Display(project_folder) \o <<"#">> \o project_name

(***************************************************************************)
(* clean_backups.                                                          *)
(***************************************************************************)
(* x placed behind every element whose time value is >= its own: with the  *)
(* elements inserted in their original order this is the stable sort       *)
(* backups.sort_by(|a, b| b.get_time_value().cmp(&a.get_time_value())).    *)
RECURSIVE InsertLatestFirst(_, _)
(* The same sort when it is not stable: x placed before the elements whose *)
(* time value equals its own. *)
RECURSIVE InsertLatestFirstUnstable(_, _)
InsertLatestFirstUnstable(sorted, x) ==
  IF sorted = <<>> THEN <<x>>
  ELSE IF get_time_value(Head(sorted)) > get_time_value(x)
    THEN <<Head(sorted)>> \o InsertLatestFirstUnstable(Tail(sorted), x)
  ELSE <<x>> \o sorted
(* The same with the comparison reversed (a.cmp(b) for b.cmp(a)). *)
InsertEarliestFirst(sorted, x) ==
  IF sorted = <<>> THEN <<x>>
  ELSE IF get_time_value(Head(sorted)) <= get_time_value(x)
    THEN <<Head(sorted)>> \o InsertLatestFirst(Tail(sorted), x)
  ELSE <<x>> \o sorted
InsertLatestFirst(sorted, x) ==
  IF sorted = <<>> THEN <<x>>
  ELSE IF get_time_value(Head(sorted)) >= get_time_value(x)
    THEN <<Head(sorted)>> \o InsertLatestFirst(Tail(sorted), x)
  ELSE <<x>> \o sorted

RECURSIVE SortLatestFirstFrom(_, _)
SortLatestFirstFrom(sorted, rest) ==
  IF rest = <<>> THEN sorted
  ELSE SortLatestFirstFrom(InsertLatestFirst(sorted, Head(rest)), Tail(rest))
SortLatestFirst(backups) == SortLatestFirstFrom(<<>>, backups)

(* fs::remove_file succeeds exactly on a regular file that exists. *)
RemoveFileOk(path, existing) == path \in existing

(* The loop `for backup in backups.iter().skip(1)`: st carries the files   *)
(* that exist, the totals and the paths a delete was attempted on.         *)
(* DeleteAllCountingFailures is the loop without its `if let Ok(_)`.       *)
RECURSIVE DeleteAllCountingFailures(_, _)
DeleteAllCountingFailures(victims, st) ==
  IF victims = <<>> THEN st
  ELSE LET b == Head(victims)
           ok == RemoveFileOk(b.path, st.files)
       IN  DeleteAllCountingFailures(Tail(victims),
             [st EXCEPT !.files = IF ok THEN @ \ {b.path} ELSE @,
                        !.total_size_saved = @ + b.file_size,
                        !.deleted_count = @ + 1,
                        !.attempted = Append(@, b.path)])
RECURSIVE DeleteAll(_, _)
DeleteAll(victims, st) ==
  IF victims = <<>> THEN st
  ELSE LET b == Head(victims)
           ok == RemoveFileOk(b.path, st.files)
       IN  DeleteAll(Tail(victims),
             [st EXCEPT !.files = IF ok THEN @ \ {b.path} ELSE @,
                        !.total_size_saved = IF ok THEN @ + b.file_size ELSE @,
                        !.deleted_count = IF ok THEN @ + 1 ELSE @,
                        !.attempted = Append(@, b.path)])

(* One iteration of `for (_project_key, backups) in &mut self.found_backups`; *)
(* CleanProjectNotSkipping is the iteration without `len() <= 1` and       *)
(* `skip(1)`, CleanProjectClearing the iteration without `len() <= 1` and  *)
(* with truncate(0).                                                       *)
CleanProjectClearing(key, st) ==
  LET sorted == SortLatestFirst(st.found[key])
  IN  [DeleteAll(Tail(sorted), st) EXCEPT !.found[key] = <<>>]
CleanProjectNotSkipping(key, st) ==
  LET sorted == SortLatestFirst(st.found[key])
  IN  [DeleteAll(sorted, st) EXCEPT !.found[key] = <<sorted[1]>>]
CleanProject(key, st) ==
  LET backups == st.found[key]
      sorted == SortLatestFirst(backups)
  IN  IF Len(backups) <= 1 THEN st
      ELSE [DeleteAll(Tail(sorted), st) EXCEPT !.found[key] = <<sorted[1]>>]

RECURSIVE CleanProjects(_, _)
CleanProjects(order, st) ==
  IF order = <<>> THEN st
  ELSE CleanProjects(Tail(order), CleanProject(Head(order), st))

(* clean_backups over the found-map `found` with the files `existing`, the *)
(* HashMap being iterated in the order `order` of its keys.                *)
(* CleanBackupsAccumulating is the function without                        *)
(* `self.total_size_saved = 0`.                                            *)
CleanBackupsAccumulating(found, existing, order) ==
  CleanProjects(order,
    [found |-> found, files |-> existing, total_size_saved |-> app.total_size_saved,
     deleted_count |-> 0, attempted |-> <<>>])
clean_backups(found, existing, order) ==
  CleanProjects(order,
    [found |-> found, files |-> existing, total_size_saved |-> 0,
     deleted_count |-> 0, attempted |-> <<>>])

(***************************************************************************)
(* get_all_drives, get_top_level_directories and the walk of               *)
(* scan_directory.                                                         *)
(***************************************************************************)
(* The Unix branch: the candidates are pushed without an existence check   *)
(* ("/Users" and "/media" are candidates like "/mnt" and are left out).    *)
get_all_drives == << <<>>, <<nHome>>, <<nMnt>> >>

DriveName(path) == Display(path)
available_drives == [i \in 1..Len(get_all_drives) |->
                       [path |-> get_all_drives[i], name |-> DriveName(get_all_drives[i])]]
DriveNames == {available_drives[i].name : i \in 1..Len(available_drives)}

LowerToken(t) ==
  CASE t = "Backup" -> "backup"
    [] t = "Windows" -> "windows"
    [] t = "AppData" -> "appdata"
    [] t = "Cache" -> "cache"
    [] OTHER -> t
LowerName(name) == [i \in 1..Len(name) |-> LowerToken(name[i])]
EqIgnoreAsciiCase(a, b) == LowerName(a) = LowerName(b)
StartsWith(name, t) == name # <<>> /\ name[1] = t

(* skip_dirs of get_top_level_directories and of scan_directory (the names *)
(* that can occur in the tree). *)
TopSkipDirs == {<<"Windows">>, <<"AppData">>, <<"Intel">>}
WalkSkipDirs == TopSkipDirs \cup {<<"node_modules">>, <<".", "git">>, <<"cache">>, <<"tmp">>}

TopLevelKept(path) ==
  /\ IsDir(path)
  /\ ~\E skip \in TopSkipDirs : EqIgnoreAsciiCase(Last(path), skip)
  /\ ~StartsWith(Last(path), ".")
  /\ ~StartsWith(Last(path), "$")

RECURSIVE TopLevelOf(_, _)
TopLevelOf(names, drive) ==
  IF names = <<>> THEN <<>>
  ELSE (IF TopLevelKept(drive \o <<Head(names)>>) THEN <<drive \o <<Head(names)>>>> ELSE <<>>)
       \o TopLevelOf(Tail(names), drive)

(* fs::read_dir failing on the drive leaves the list empty. *)
get_top_level_directories(drive) ==
  IF ~IsDir(drive) \/ drive \in Unreadable THEN <<>>
  ELSE TopLevelOf(DirListing[drive], drive)

(* The predicate of filter_entry on an entry's file name;                  *)
(* FilterEntryExactCase is the predicate comparing with == for             *)
(* eq_ignore_ascii_case.                                                   *)
FilterEntryExactCase(file_name) ==
  /\ file_name \notin WalkSkipDirs
  /\ ~StartsWith(file_name, ".")
  /\ ~StartsWith(file_name, "~")
FilterEntry(file_name) ==
  /\ ~\E skip \in WalkSkipDirs : EqIgnoreAsciiCase(file_name, skip)
  /\ ~StartsWith(file_name, ".")
  /\ ~StartsWith(file_name, "~")

IsBackupDir(path) == IsDir(path) /\ path # <<>> /\ Last(path) = nBackup

(* The entries WalkDir::new(dir).follow_links(false).max_depth(max_depth)  *)
(* yields through filter_entry, depth first and in listing order, from the *)
(* entry `path` at depth `depth`; `existing` are the regular files.  Of    *)
(* the entries, the loop body of scan_directory acts on regular files and  *)
(* on directories named Backup only, and these are kept.  A directory     *)
(* that cannot be read is yielded as an entry like any other, and the      *)
(* error of opening it as the next item in place of its entries.           *)
RECURSIVE WalkFrom(_, _, _, _), WalkChildren(_, _, _, _, _)
WalkFrom(path, depth, max_depth, existing) ==
  IF path # <<>> /\ ~FilterEntry(Last(path)) THEN <<>>
  ELSE IF path \in existing THEN <<[path |-> path, is_file |-> TRUE, error |-> FALSE]>>
  ELSE IF ~IsDir(path) THEN <<>>
  ELSE (IF IsBackupDir(path)
          THEN <<[path |-> path, is_file |-> FALSE, error |-> FALSE]>> ELSE <<>>)
       \o (IF depth >= max_depth THEN <<>>
           ELSE IF path \in Unreadable
             THEN <<[path |-> path, is_file |-> FALSE, error |-> TRUE]>>
           ELSE WalkChildren(path, DirListing[path], depth + 1, max_depth, existing))
WalkChildren(dir, names, depth, max_depth, existing) ==
  IF names = <<>> THEN <<>>
  ELSE WalkFrom(dir \o <<Head(names)>>, depth, max_depth, existing)
       \o WalkChildren(dir, Tail(names), depth, max_depth, existing)

WalkEntries(dir, max_depth, existing) == WalkFrom(dir, 0, max_depth, existing)

(* The directories the same walker descends into (reads the listing of):   *)
(* the directories that pass filter_entry, above max_depth.                *)
RECURSIVE WalkDirsFrom(_, _, _)
WalkDirsFrom(path, depth, max_depth) ==
  IF path # <<>> /\ ~FilterEntry(Last(path)) THEN {}
  ELSE IF ~IsDir(path) \/ depth >= max_depth \/ path \in Unreadable THEN {}
  ELSE {path} \cup UNION {WalkDirsFrom(path \o <<n>>, depth + 1, max_depth)
                             : n \in Range(DirListing[path])}
WalkDirs(dir, max_depth) == WalkDirsFrom(dir, 0, max_depth)

(* Path::extension() == "flp". *)
HasFlpExtension(path) == Len(Last(path)) > 1 /\ Last(Last(path)) = ".flp"

(* scan_backup_folder: the FoundBackup messages it sends, in order. *)
RECURSIVE FoundIn(_, _, _, _)
FoundIn(names, backup_folder, project_folder, existing) ==
  IF names = <<>> THEN <<>>
  ELSE LET path == backup_folder \o <<Head(names)>>
           listed == path \in existing \/ IsDir(path)
           backup_file == IF listed /\ HasFlpExtension(path)
                            THEN BackupFile_new(path, existing) ELSE None
       IN  (IF backup_file = None THEN <<>>
            ELSE <<[type |-> "FoundBackup",
                    key |-> ProjectKey(project_folder, backup_file[1].project_name),
                    backup |-> backup_file[1]]>>)
           \o FoundIn(Tail(names), backup_folder, project_folder, existing)

scan_backup_folder(backup_folder, project_folder, existing) ==
  IF ~IsDir(backup_folder) \/ backup_folder \in Unreadable THEN <<>>
  ELSE FoundIn(DirListing[backup_folder], backup_folder, project_folder, existing)

(* top_dirs.chunks(chunk_size) with chunk_size = 1.max(len / max_threads). *)
ChunkSize(n, max_threads) == Max2(1, n \div max_threads)
RECURSIVE Chunks(_, _)
Chunks(top_dirs, size) ==
  IF top_dirs = <<>> THEN <<>>
  ELSE IF Len(top_dirs) <= size THEN <<top_dirs>>
  ELSE <<SubSeq(top_dirs, 1, size)>> \o Chunks(SubSeq(top_dirs, size + 1, Len(top_dirs)), size)

MaxThreads == 2
MaxPeriodic == 1
MaxPanics == 1

EmptyMap == <<>>
Percent(n, d) == [n |-> n, d |-> d]

Progress(msg, scanned, estimated) ==
  [type |-> "Progress", msg |-> msg, files_scanned |-> scanned, total_estimated |-> estimated]
Complete(total_found) == [type |-> "Complete", total_found |-> total_found]

(* tx.send: the message is queued while the receiver exists; the error a   *)
(* send returns once the receiver is dropped is ignored (let _ =).         *)
Send(queue, msgs) == IF app.scan_receiver THEN queue \o msgs ELSE queue

(* The settings struct (the theme is left out). *)
SettingsOf(selected, threads, auto) ==
  [selected_drives |-> selected, max_scan_threads |-> threads, scan_depth |-> 15,
   auto_clean |-> auto]

WithDepth(st, depth) == [st EXCEPT !.scan_depth = depth]

(* The user's inputs. *)
ScanClick == [input |-> "scan", value |-> <<>>]
ApplySettings(st) == [input |-> "settings", value |-> st]

(* The trees the runs start from: one project folder with two backups of   *)
(* one project; the same with two more top-level directories, which hold   *)
(* nothing; two project folders beside a hidden directory; and the one     *)
(* project folder with a directory "Cache" in it, beside a directory       *)
(* "~old", each holding a Backup directory with a backup; and the one      *)
(* project folder with an unreadable directory "locked" listed before its  *)
(* Backup directory, beside a second project folder; and a project folder  *)
(* whose Backup directory lists a backup that fs::metadata fails on and    *)
(* that holds a second, empty Backup directory further down.               *)
OneProject == {<<>>, <<nHome>>, <<nHome, nA>>, <<nHome, nA, nBackup>>}
ThreeTopDirs == OneProject \cup {<<nHome, nAB>>, <<nHome, nD>>}
TwoProjects ==
  OneProject \cup {<<nHome, nAB>>, <<nHome, nAB, nBackup>>,
                   <<nHome, nHidden>>, <<nHome, nHidden, nBackup>>}
NoSizeDir ==
  {<<>>, <<nHome>>, <<nHome, nE>>, <<nHome, nE, nBackup>>,
   <<nHome, nE, nD>>, <<nHome, nE, nD, nBackup>>}
LockedDir ==
  OneProject \cup {<<nHome, nA, nLocked>>, <<nHome, nA, nLocked, nBackup>>,
                   <<nHome, nAB>>, <<nHome, nAB, nBackup>>}
SkippedDirs ==
  OneProject \cup {<<nHome, nA, nCache>>, <<nHome, nA, nCache, nBackup>>,
                   <<nHome, nOld>>, <<nHome, nOld, nBackup>>}
FilesIn(tree) == {f \in AllFiles : Front(f) \in tree}

(* A run starts from a tree, a settings file and the inputs the user is    *)
(* going to make:                                                          *)
(*   - "/" and "/home" selected (as they are, with every other candidate,  *)
(*     when no selection is saved), one scan;                              *)
(*   - "/home" selected over the two project folders, one scan with a      *)
(*     sub-worker per top-level directory, and every setting changed in    *)
(*     the settings window at some time after the click;                   *)
(*   - "/home" selected over three top-level directories with              *)
(*     max_scan_threads 2, one scan;                                       *)
(*   - "/home" selected with a scan_depth of 1 in the settings file, which *)
(*     is loaded as it is, one scan: the Backup directory lies at depth 1  *)
(*     under the top-level directory "/home/a";                            *)
(*   - "/home" selected over the tree with "Cache" and "~old", one scan;   *)
(*   - "/home" selected over the tree with the unreadable directory, one   *)
(*     thread, one scan;                                                   *)
(*   - "/home" selected over the tree with the backup without a size, one  *)
(*     scan;                                                               *)
(*   - "/home" selected, a scan, another selection ("/mnt", which cannot   *)
(*     be listed, by itself or with "/home", or "/"), a second scan.       *)
Root == DriveName(<<>>)
Home == DriveName(<<nHome>>)
Mnt == DriveName(<<nMnt>>)
Scenarios ==
  {[tree |-> OneProject, saved |-> SettingsOf({Root, Home}, MaxThreads, TRUE),
    inputs |-> <<ScanClick>>]}
  \cup
  {[tree |-> TwoProjects, saved |-> SettingsOf({Home}, MaxThreads, auto),
    inputs |-> <<ScanClick,
                 ApplySettings(WithDepth(SettingsOf({Root, Home}, 1, ~auto), 5))>>]
     : auto \in BOOLEAN}
  \cup
  {[tree |-> ThreeTopDirs, saved |-> SettingsOf({Home}, 2, FALSE),
    inputs |-> <<ScanClick>>]}
  \cup
  {[tree |-> OneProject, saved |-> WithDepth(SettingsOf({Home}, 1, FALSE), 1),
    inputs |-> <<ScanClick>>]}
  \cup
  {[tree |-> SkippedDirs, saved |-> SettingsOf({Home}, 1, FALSE),
    inputs |-> <<ScanClick>>]}
  \cup
  {[tree |-> LockedDir, saved |-> SettingsOf({Home}, 1, FALSE),
    inputs |-> <<ScanClick>>]}
  \cup
  {[tree |-> NoSizeDir, saved |-> SettingsOf({Home}, 1, FALSE),
    inputs |-> <<ScanClick>>]}
  \cup
  {[tree |-> OneProject, saved |-> SettingsOf({Home}, 1, auto),
    inputs |-> <<ScanClick, ApplySettings(SettingsOf(again, 1, auto)), ScanClick>>]
     : auto \in BOOLEAN, again \in {{Mnt}, {Root}, {Home, Mnt}}}

IdleCoord ==
  [pc |-> "idle", drives |-> <<>>, max_threads |-> 1, max_depth |-> 0, auto_clean |-> FALSE,
   i |-> 0, total_found |-> 0, final_scanned |-> 0, final_estimate |-> 0]
(* held are the pairs <<mutex, thread>> of the locks that are held; it is   *)
(* empty wherever a critical section is one step.                          *)
FreshShared ==
  [files_scanned |-> 0, total_estimate |-> 0, completed_drives |-> {},
   processed_dirs |-> {}, poisoned |-> FALSE, held |-> {}]

(* The history of the current scan: traversed are the directories a walker *)
(* has descended into, retraversed those descended into more than once,    *)
(* errors counts the traversal errors the walkers have met.  burst holds   *)
(* the sub-workers whose call of scan_directory has sent a Progress since  *)
(* a walker last saw time pass (its elapsed test succeed), and unspaced    *)
(* is 1 once a call has sent a Progress while in burst: with no time       *)
(* known to have passed since its previous one.                            *)
(* cleans (the calls of clean_backups so far) and stray (the paths a       *)
(* delete was attempted on that no FoundBackup received in the scan then   *)
(* current carried) are kept over the scans; removed are the files the     *)
(* last call of clean_backups removed.  parsed is used where BackupFile::new  *)
(* is applied by itself.  config holds the settings as they were when      *)
(* start_scan was called, auto_sent counts the AUTO_CLEAN signals sent,    *)
(* saved holds the settings as the program loaded them or as the user last *)
(* saved them in the settings window (kept over the scans), saved_before   *)
(* the total_size_saved the last call of clean_backups started with.       *)
FreshHist ==
  [found_sent |-> 0, complete_sent |-> 0, late_found |-> 0, periodic |-> 0, panics |-> 0, errors |-> 0,
   burst |-> {}, unspaced |-> 0,
   received |-> {}, at_complete |-> None, before |-> EmptyMap, attempted |-> <<>>,
   clean_calls |-> 0, auto_cleans |-> 0, cleans |-> 0, stray |-> {},
   traversed |-> {}, retraversed |-> {}, removed |-> {}, parsed |-> None,
   config |-> None, auto_sent |-> 0, saved |-> None, saved_before |-> 0]

(* FlBackupCleaner::new: the settings come from the settings file; the     *)
(* selection is rebuilt from the drives that are available. *)
FlBackupCleaner_new(saved) ==
  [found_backups |-> EmptyMap, total_files_found |-> 0, total_size_saved |-> 0,
   is_scanning |-> FALSE, scan_complete |-> FALSE, deletion_status |-> None,
   scan_receiver |-> FALSE, progress_percentage |-> Percent(0, 1),
   files_scanned |-> 0, total_files_estimated |-> 0,
   settings |-> [saved EXCEPT !.selected_drives =
                   {n \in DriveNames : n \in saved.selected_drives \/ saved.selected_drives = {}}]]

InitFrom(scenarios) ==
  \E sc \in scenarios :
    /\ app = FlBackupCleaner_new(sc.saved)
    /\ chan = <<>>
    /\ coord = IdleCoord
    /\ roots = <<>>
    /\ shared = FreshShared
    /\ dirs = sc.tree
    /\ files = FilesIn(sc.tree)
    /\ user = sc.inputs
    /\ hist = [FreshHist EXCEPT !.saved = Some(FlBackupCleaner_new(sc.saved).settings)]

Init == InitFrom(Scenarios)

(***************************************************************************)
(* The UI thread: start_scan, update_from_scan_messages, clean_backups and *)
(* the frame handler update.                                               *)
(***************************************************************************)
(* The state start_scan resets, before it creates the channel and spawns   *)
(* the coordinator; it returns at once while a scan is running.            *)
StartScanKeepingProgress(a) ==
  IF a.is_scanning THEN a
  ELSE [a EXCEPT !.is_scanning = TRUE, !.scan_complete = FALSE, !.found_backups = EmptyMap,
                 !.total_files_found = 0,
                 !.files_scanned = 0, !.total_files_estimated = 0, !.scan_receiver = TRUE]
StartScanKeepingFound(a) ==
  IF a.is_scanning THEN a
  ELSE [a EXCEPT !.is_scanning = TRUE, !.scan_complete = FALSE,
                 !.total_files_found = 0, !.progress_percentage = Percent(0, 1),
                 !.files_scanned = 0, !.total_files_estimated = 0, !.scan_receiver = TRUE]
(* StartScanWhileScanning is start_scan without its early return. *)
StartScanWhileScanning(a) ==
  [a EXCEPT !.is_scanning = TRUE, !.scan_complete = FALSE, !.found_backups = EmptyMap,
            !.total_files_found = 0, !.progress_percentage = Percent(0, 1),
            !.files_scanned = 0, !.total_files_estimated = 0, !.scan_receiver = TRUE]
start_scan(a) ==
  IF a.is_scanning THEN a
  ELSE [a EXCEPT !.is_scanning = TRUE, !.scan_complete = FALSE, !.found_backups = EmptyMap,
                 !.total_files_found = 0, !.progress_percentage = Percent(0, 1),
                 !.files_scanned = 0, !.total_files_estimated = 0, !.scan_receiver = TRUE]

(* The drives start_scan hands to the coordinator. *)
RECURSIVE SelectedFrom(_, _)
SelectedFrom(drives, selected) ==
  IF drives = <<>> THEN <<>>
  ELSE (IF Head(drives).name \in selected THEN <<Head(drives).path>> ELSE <<>>)
       \o SelectedFrom(Tail(drives), selected)
selected_drives(a) == SelectedFrom(available_drives, a.settings.selected_drives)

(* One arm of `match message` in update_from_scan_messages; the mutation   *)
(* of found_backups is entry(key).or_insert_with(Vec::new).push(backup).   *)
ApplyMessageReplacing(a, m) ==
  CASE m.type = "Progress" ->
         IF m.total_estimated > 0
           THEN [a EXCEPT !.files_scanned = m.files_scanned,
                          !.total_files_estimated = m.total_estimated,
                          !.progress_percentage =
                             IF m.files_scanned > m.total_estimated THEN Percent(100, 1)
                             ELSE Percent(m.files_scanned * 100, m.total_estimated)]
           ELSE [a EXCEPT !.files_scanned = m.files_scanned]
    [] m.type = "FoundBackup" ->
         IF m.key \in DOMAIN a.found_backups
           THEN [a EXCEPT !.found_backups[m.key] = <<m.backup>>]
           ELSE [a EXCEPT !.found_backups = @ @@ (m.key :> <<m.backup>>)]
    [] m.type = "Complete" ->
         [a EXCEPT !.total_files_found = m.total_found,
                   !.is_scanning = FALSE, !.scan_complete = TRUE,
                   !.progress_percentage = Percent(100, 1),
                   !.files_scanned = a.total_files_estimated]
ApplyMessageKeepingPercentage(a, m) ==
  CASE m.type = "Progress" ->
         IF m.total_estimated > 0
           THEN [a EXCEPT !.files_scanned = m.files_scanned,
                          !.total_files_estimated = m.total_estimated,
                          !.progress_percentage =
                             IF m.files_scanned > m.total_estimated THEN Percent(100, 1)
                             ELSE Percent(m.files_scanned * 100, m.total_estimated)]
           ELSE [a EXCEPT !.files_scanned = m.files_scanned]
    [] m.type = "FoundBackup" ->
         IF m.key \in DOMAIN a.found_backups
           THEN [a EXCEPT !.found_backups[m.key] = Append(@, m.backup)]
           ELSE [a EXCEPT !.found_backups = @ @@ (m.key :> <<m.backup>>)]
    [] m.type = "Complete" ->
         [a EXCEPT !.total_files_found = m.total_found,
                   !.is_scanning = FALSE, !.scan_complete = TRUE,
                   !.files_scanned = a.total_files_estimated]
ApplyMessage(a, m) ==
  CASE m.type = "Progress" ->
         IF m.total_estimated > 0
           THEN [a EXCEPT !.files_scanned = m.files_scanned,
                          !.total_files_estimated = m.total_estimated,
                          !.progress_percentage =
                             IF m.files_scanned > m.total_estimated THEN Percent(100, 1)
                             ELSE Percent(m.files_scanned * 100, m.total_estimated)]
           ELSE [a EXCEPT !.files_scanned = m.files_scanned]
    [] m.type = "FoundBackup" ->
         IF m.key \in DOMAIN a.found_backups
           THEN [a EXCEPT !.found_backups[m.key] = Append(@, m.backup)]
           ELSE [a EXCEPT !.found_backups = @ @@ (m.key :> <<m.backup>>)]
    [] m.type = "Complete" ->
         [a EXCEPT !.total_files_found = m.total_found,
                   !.is_scanning = FALSE, !.scan_complete = TRUE,
                   !.progress_percentage = Percent(100, 1),
                   !.files_scanned = a.total_files_estimated]

RECURSIVE ApplyMessages(_, _)
ApplyMessages(a, messages) ==
  IF messages = <<>> THEN a ELSE ApplyMessages(ApplyMessage(a, Head(messages)), Tail(messages))

IsAutoClean(m) == m.type = "Progress" /\ m.msg = "AUTO_CLEAN"
IsComplete(m) == m.type = "Complete"
IsFound(m) == m.type = "FoundBackup"
HasComplete(messages) == \E i \in 1..Len(messages) : IsComplete(messages[i])

(* `while let Ok(message) = receiver.try_recv()`: what a polling pass takes *)
(* from the channel. *)
Drained(a, queue) == IF a.scan_receiver THEN queue ELSE <<>>

(* clean_backups on the struct: the record of the struct, the files and    *)
(* the paths a delete was attempted on. *)
CleanApp(a, existing, order) ==
  LET r == clean_backups(a.found_backups, existing, order)
  IN  [app |-> [a EXCEPT !.found_backups = r.found,
                         !.total_size_saved = r.total_size_saved,
                         !.deletion_status = Some(r.deleted_count)],
       files |-> r.files, attempted |-> r.attempted, cleaned |-> TRUE,
       before |-> a.found_backups]
NotCleaned(a, existing) ==
  [app |-> a, files |-> existing, attempted |-> <<>>, cleaned |-> FALSE,
   before |-> a.found_backups]

(* Whether the pass runs clean_backups: Complete and the AUTO_CLEAN signal *)
(* were both taken from the channel in this pass. *)
AutoCleanNow(drained) ==
  /\ HasComplete(drained)
  /\ \E i \in 1..Len(drained) : IsAutoClean(drained[i])

(* The struct after the pass has applied the drained messages and, on     *)
(* Complete, dropped the receiver. *)
AfterMessages(a, queue) ==
  LET drained == Drained(a, queue)
      should_clear_receiver == HasComplete(drained)
      messages == SelectSeq(drained, LAMBDA m : ~IsAutoClean(m))
      a1 == ApplyMessages(a, messages)
  IN  IF should_clear_receiver THEN [a1 EXCEPT !.scan_receiver = FALSE] ELSE a1

(* order: the order in which the HashMap found_backups yields its keys. *)
update_from_scan_messages(a, queue, existing, order) ==
  IF AutoCleanNow(Drained(a, queue))
    THEN CleanApp(AfterMessages(a, queue), existing, order)
    ELSE NotCleaned(AfterMessages(a, queue), existing)

(* The progress bar of update: shown while scanning, capped at 95%. *)
ShowProgress(a) ==
  IF a.is_scanning /\ a.total_files_estimated > 0
    THEN [a EXCEPT !.progress_percentage =
            IF a.files_scanned * 100 > 95 * a.total_files_estimated /\ ~a.scan_complete
              THEN Percent(95, 1)
              ELSE Percent(a.files_scanned * 100, a.total_files_estimated)]
    ELSE a

projects_with_multiple_backups(a) ==
  Cardinality({k \in DOMAIN a.found_backups : Len(a.found_backups[k]) > 1})

(* The clean button is drawn. *)
CleanButtonShownAlways(a) ==
  /\ DOMAIN a.found_backups # {}
  /\ projects_with_multiple_backups(a) > 0
CleanButtonShown(a) ==
  /\ a.scan_complete
  /\ DOMAIN a.found_backups # {}
  /\ projects_with_multiple_backups(a) > 0

(* The scan button is enabled. *)
ScanButtonEnabled(a) == ~a.is_scanning

(* The coordinator thread start_scan spawns, with the configuration it     *)
(* captures. *)
SpawnedCoord(a) ==
  [IdleCoord EXCEPT !.pc = "begin", !.drives = selected_drives(a),
                    !.max_threads = a.settings.max_scan_threads,
                    !.max_depth = a.settings.scan_depth,
                    !.auto_clean = a.settings.auto_clean]

FoundPaths(messages) ==
  {messages[i].backup.path : i \in {j \in 1..Len(messages) : IsFound(messages[j])}}
RECURSIVE SumLens(_, _)
SumLens(found, keys) ==
  IF keys = {} THEN 0
  ELSE LET k == CHOOSE x \in keys : TRUE
       IN  Len(found[k]) + SumLens(found, keys \ {k})
TotalEntries(found) == SumLens(found, DOMAIN found)

(* update: one frame.  It polls the channel, shows the settings window,    *)
(* then draws the buttons; ui is what the user does in this frame          *)
(* ("none", "settings": applies new_settings, "scan", "clean") and order   *)
(* the order in which found_backups yields its keys.  The threads of an    *)
(* earlier scan hold the sender of a channel with no receiver and counters *)
(* of their own: nothing they do can be seen any more, and start_scan      *)
(* leaves them out of the state.                                           *)
(* The end of the frame: polled is the outcome of the polling pass, last   *)
(* the outcome of the buttons. *)
FrameEnd(ui, polled, last, drained) ==
  LET clean == IF polled.cleaned THEN polled ELSE last
      cleaned == polled.cleaned \/ last.cleaned
      received == hist.received \cup FoundPaths(drained)
      scan_hist ==
        [hist EXCEPT
           !.received = received,
           !.at_complete = IF HasComplete(drained) THEN Some(TotalEntries(polled.before))
                           ELSE @,
           !.before = IF cleaned THEN clean.before ELSE @,
           !.attempted = IF cleaned THEN clean.attempted ELSE @,
           !.removed = IF cleaned THEN files \ clean.files ELSE @,
           !.saved_before = IF cleaned THEN app.total_size_saved ELSE @,
           !.clean_calls = IF cleaned THEN @ + 1 ELSE @,
           !.auto_cleans = IF polled.cleaned THEN @ + 1 ELSE @,
           !.cleans = IF cleaned THEN @ + 1 ELSE @,
           !.stray = IF cleaned THEN @ \cup (Range(clean.attempted) \ received) ELSE @,
           !.saved = IF ui = "settings" THEN Some(Head(user).value) ELSE @]
  IN  /\ app' = last.app
      /\ files' = last.files
      /\ chan' = <<>>
      /\ user' = IF ui \in {"settings", "scan"} THEN Tail(user) ELSE user
      /\ dirs' = dirs
      /\ IF ui = "scan" /\ ~polled.app.is_scanning
           THEN /\ coord' = SpawnedCoord(last.app)
                /\ roots' = <<>>
                /\ shared' = FreshShared
                /\ hist' = [FreshHist EXCEPT !.cleans = scan_hist.cleans,
                                             !.stray = scan_hist.stray,
                                             !.saved = scan_hist.saved,
                                             !.config = Some(last.app.settings)]
           ELSE /\ UNCHANGED <<coord, roots, shared>>
                /\ hist' = scan_hist

(* The clean button, drawn on the struct as the progress bar left it. *)
FrameClean(ui, order, polled, shown, drained) ==
  /\ ui = "clean" => CleanButtonShown(shown)
  /\ FrameEnd(ui, polled,
              IF ui = "clean" THEN CleanApp(shown, polled.files, order)
              ELSE NotCleaned(shown, polled.files),
              drained)

(* The settings window and the scan button, on the struct as the polling   *)
(* pass left it. *)
FrameInputs(ui, new_settings, order, polled, drained) ==
  /\ ui = "scan" => ScanButtonEnabled(polled.app)
  /\ FrameClean(ui, order, polled,
                ShowProgress(IF ui = "settings" THEN [polled.app EXCEPT !.settings = new_settings]
                             ELSE IF ui = "scan" THEN start_scan(polled.app)
                             ELSE polled.app),
                drained)

Frame(ui, new_settings, order) ==
  FrameInputs(ui, new_settings, order, update_from_scan_messages(app, chan, files, order),
              Drained(app, chan))

KeyOrders == Orders(DOMAIN AfterMessages(app, chan).found_backups)
(* The orders that matter to the frame: those of a frame that cleans. *)
FrameOrders(ui) ==
  IF ui = "clean" \/ AutoCleanNow(Drained(app, chan)) THEN KeyOrders ELSE {<<>>}

(* A frame in which the user does nothing. *)
UpdateIdle == \E order \in FrameOrders("none") : Frame("none", app.settings, order)

(* A frame in which the user saves the settings window. *)
UpdateSettings ==
  /\ user # <<>>
  /\ Head(user).input = "settings"
  /\ \E order \in FrameOrders("settings") : Frame("settings", Head(user).value, order)

(* A frame in which the user clicks the scan button. *)
UpdateScanClick ==
  /\ user # <<>>
  /\ Head(user).input = "scan"
  /\ \E order \in FrameOrders("scan") : Frame("scan", app.settings, order)

(* A frame in which the user clicks the clean button. *)
UpdateCleanClick == \E order \in FrameOrders("clean") : Frame("clean", app.settings, order)

(***************************************************************************)
(* The coordinator thread (the closure start_scan spawns).                 *)
(***************************************************************************)
base_estimate_per_drive == 100000

NDrives == Len(coord.drives)
Terminated(t) == t.pc \in {"done", "panicked"}

IdleRoot ==
  [pc |-> "idle", workers |-> <<>>, j |-> 0, drive_found |-> 0, drive_files_scanned |-> 0]

(* tx.send(ScanMessage::Progress("Getting drive list...", 0, 0)). *)
CoordBegin ==
  /\ coord.pc = "begin"
  /\ chan' = Send(chan, <<Progress("Getting drive list...", 0, 0)>>)
  /\ coord' = [coord EXCEPT !.pc = "estimate"]
  /\ UNCHANGED <<app, roots, shared, dirs, files, user, hist>>

(* The initial estimate, the shared values and the first Progress. *)
CoordEstimate ==
  /\ coord.pc = "estimate"
  /\ shared' = [FreshShared EXCEPT !.total_estimate = NDrives * base_estimate_per_drive]
  /\ roots' = [r \in 1..NDrives |-> IdleRoot]
  /\ chan' = Send(chan, <<Progress("Starting scan across", 0, shared'.total_estimate)>>)
  /\ coord' = [coord EXCEPT !.pc = IF NDrives = 0 THEN "verify" ELSE "spawn", !.i = 1]
  /\ UNCHANGED <<app, dirs, files, user, hist>>

(* One iteration of `for (_, drive) in drives.iter().enumerate()`: the     *)
(* Progress for the drive, then the root worker is spawned.  The counters  *)
(* are locked for the message: a poisoned lock panics the thread.          *)
CoordSpawn ==
  /\ coord.pc = "spawn"
  /\ IF shared.poisoned
       THEN /\ coord' = [coord EXCEPT !.pc = "panicked"]
            /\ UNCHANGED <<chan, roots>>
       ELSE /\ chan' = Send(chan, <<Progress("Scanning", shared.files_scanned,
                                              shared.total_estimate)>>)
            /\ roots' = [roots EXCEPT ![coord.i].pc = "start"]
            /\ coord' = IF coord.i = NDrives THEN [coord EXCEPT !.pc = "join", !.i = 1]
                        ELSE [coord EXCEPT !.i = @ + 1]
  /\ UNCHANGED <<app, shared, dirs, files, user, hist>>

(* One iteration of `for handle in scan_threads`: handle.join() returns    *)
(* once the root worker has ended, with Ok(found) unless it panicked.      *)
JoinRootBeforeItEnds(r) == TRUE
JoinRoot(r) == Terminated(roots[r])
CoordJoin ==
  /\ coord.pc = "join"
  /\ JoinRoot(coord.i)
  /\ coord' = [coord EXCEPT
        !.total_found = IF roots[coord.i].pc = "panicked" THEN @
                        ELSE @ + roots[coord.i].drive_found,
        !.i = IF coord.i = NDrives THEN 1 ELSE @ + 1,
        !.pc = IF coord.i = NDrives THEN "verify" ELSE @]
  /\ UNCHANGED <<app, chan, roots, shared, dirs, files, user, hist>>

(* "Verify all drives were completed". *)
missing_drives ==
  IF Cardinality(shared.completed_drives) < NDrives
    THEN SelectSeq(coord.drives, LAMBDA d : DriveName(d) \notin shared.completed_drives)
    ELSE <<>>
CoordVerify ==
  /\ coord.pc = "verify"
  /\ IF missing_drives # <<>> /\ shared.poisoned
       THEN /\ coord' = [coord EXCEPT !.pc = "panicked"]
            /\ chan' = chan
       ELSE /\ coord' = [coord EXCEPT !.pc = "final"]
            /\ chan' = IF missing_drives # <<>>
                         THEN Send(chan, <<Progress("Warning: Some drives were not fully scanned",
                                                    shared.files_scanned, shared.total_estimate)>>)
                         ELSE chan
  /\ UNCHANGED <<app, roots, shared, dirs, files, user, hist>>

(* "Final update before completion". *)
CoordFinal ==
  /\ coord.pc = "final"
  /\ IF shared.poisoned
       THEN /\ coord' = [coord EXCEPT !.pc = "panicked"]
            /\ chan' = chan
       ELSE /\ coord' = [coord EXCEPT !.final_scanned = shared.files_scanned,
                                       !.final_estimate = shared.total_estimate,
                                       !.pc = IF shared.files_scanned < 1000 THEN "few"
                                              ELSE "complete"]
            /\ chan' = Send(chan, <<Progress("Scan completed. Processed",
                                             shared.files_scanned, shared.total_estimate)>>)
  /\ UNCHANGED <<app, roots, shared, dirs, files, user, hist>>

(* final_scanned < 1000: the warning and the sleep. *)
CoordWarnFew ==
  /\ coord.pc = "few"
  /\ chan' = Send(chan, <<Progress("Warning: Only", coord.final_scanned, coord.final_estimate)>>)
  /\ coord' = [coord EXCEPT !.pc = "complete"]
  /\ UNCHANGED <<app, roots, shared, dirs, files, user, hist>>

(* tx.send(ScanMessage::Complete(total_found)).  CoordCompleteLive is the  *)
(* step of a coordinator that reads auto_clean from the settings as they   *)
(* are now.                                                                *)
CoordCompleteLive ==
  /\ coord.pc = "complete"
  /\ chan' = Send(chan, <<Complete(coord.total_found)>>)
  /\ coord' = [coord EXCEPT !.pc = IF app.settings.auto_clean /\ coord.total_found > 0
                                     THEN "auto" ELSE "done"]
  /\ hist' = [hist EXCEPT !.complete_sent = @ + 1]
  /\ UNCHANGED <<app, roots, shared, dirs, files, user>>
CoordComplete ==
  /\ coord.pc = "complete"
  /\ chan' = Send(chan, <<Complete(coord.total_found)>>)
  /\ coord' = [coord EXCEPT !.pc = IF coord.auto_clean /\ coord.total_found > 0
                                     THEN "auto" ELSE "done"]
  /\ hist' = [hist EXCEPT !.complete_sent = @ + 1]
  /\ UNCHANGED <<app, roots, shared, dirs, files, user>>

(* The AUTO_CLEAN signal. *)
CoordAutoClean ==
  /\ coord.pc = "auto"
  /\ chan' = Send(chan, <<Progress("AUTO_CLEAN", coord.final_scanned, coord.final_estimate)>>)
  /\ coord' = [coord EXCEPT !.pc = "done"]
  /\ hist' = [hist EXCEPT !.auto_sent = @ + 1]
  /\ UNCHANGED <<app, roots, shared, dirs, files, user>>

(***************************************************************************)
(* A root worker (the closure spawned per drive).                          *)
(***************************************************************************)
NewWorker(chunk) ==
  [pc |-> "enter", chunk |-> chunk, d |-> 1, todo |-> <<>>, dirs_found |-> 0]

SpawnedWorkers(top_dirs, max_threads) ==
  LET chunks == Chunks(top_dirs, ChunkSize(Len(top_dirs), max_threads))
  IN  [c \in 1..Len(chunks) |-> NewWorker(chunks[c])]

(* From get_top_level_directories to the end of the spawn loop; with no    *)
(* top-level directory the worker reports, marks the drive completed and   *)
(* returns 0.  RootStartUnwrapping is the worker with the listing          *)
(* unwrapped, a failed read_dir ending the thread.                         *)
RootStartUnwrapping(r) ==
  /\ roots[r].pc = "start"
  /\ LET drive == coord.drives[r]
         top_dirs == get_top_level_directories(drive)
     IN  IF IsDir(drive) /\ top_dirs # <<>>
           THEN /\ roots' = [roots EXCEPT
                      ![r].workers = SpawnedWorkers(top_dirs, coord.max_threads),
                      ![r].j = 1, ![r].pc = "join"]
                /\ UNCHANGED <<chan, shared>>
         ELSE /\ roots' = [roots EXCEPT ![r].pc = "panicked"]
              /\ UNCHANGED <<chan, shared>>
  /\ UNCHANGED <<app, coord, dirs, files, user, hist>>
RootStart(r) ==
  /\ roots[r].pc = "start"
  /\ LET drive == coord.drives[r]
         top_dirs == get_top_level_directories(drive)
     IN  IF top_dirs # <<>>
           THEN /\ roots' = [roots EXCEPT
                      ![r].workers = SpawnedWorkers(top_dirs, coord.max_threads),
                      ![r].j = 1, ![r].pc = "join"]
                /\ UNCHANGED <<chan, shared>>
         ELSE IF shared.poisoned
           THEN /\ roots' = [roots EXCEPT ![r].pc = "panicked"]
                /\ UNCHANGED <<chan, shared>>
         ELSE /\ chan' = Send(chan, <<Progress("No scannable directories found on",
                                                shared.files_scanned, shared.total_estimate)>>)
              /\ shared' = [shared EXCEPT !.completed_drives = @ \cup {DriveName(drive)}]
              /\ roots' = [roots EXCEPT ![r].pc = "done"]
  /\ UNCHANGED <<app, coord, dirs, files, user, hist>>

(* One iteration of `for thread_handle in dir_threads`: join, then add the *)
(* count or report the thread error. *)
RootJoin(r) ==
  /\ roots[r].pc = "join"
  /\ LET w == roots[r].workers[roots[r].j]
         next == IF roots[r].j = Len(roots[r].workers) THEN "finish" ELSE "join"
     IN  /\ Terminated(w)
         /\ IF w.pc = "done"
              THEN /\ roots' = [roots EXCEPT ![r].drive_found = @ + w.dirs_found,
                                              ![r].j = @ + 1, ![r].pc = next]
                   /\ chan' = chan
            ELSE IF shared.poisoned
              THEN /\ roots' = [roots EXCEPT ![r].pc = "panicked"]
                   /\ chan' = chan
            ELSE /\ roots' = [roots EXCEPT ![r].j = @ + 1, ![r].pc = next]
                 /\ chan' = Send(chan, <<Progress("Thread error on", shared.files_scanned,
                                                   shared.total_estimate)>>)
  /\ UNCHANGED <<app, coord, shared, dirs, files, user, hist>>

(* "Report completion for this drive", mark it completed, return the count. *)
RootFinish(r) ==
  /\ roots[r].pc = "finish"
  /\ IF shared.poisoned
       THEN /\ roots' = [roots EXCEPT ![r].pc = "panicked"]
            /\ UNCHANGED <<chan, shared>>
       ELSE /\ chan' = Send(chan, <<Progress("Completed scan of", shared.files_scanned,
                                              shared.total_estimate)>>)
            /\ shared' = [shared EXCEPT
                  !.completed_drives = @ \cup {DriveName(coord.drives[r])}]
            /\ roots' = [roots EXCEPT ![r].pc = "done"]
  /\ UNCHANGED <<app, coord, dirs, files, user, hist>>

(***************************************************************************)
(* A sub-worker (the closure spawned per chunk) and scan_directory.        *)
(***************************************************************************)
(* The worker once scan_directory has returned for its current directory:  *)
(* the next directory of the chunk, or the end of the closure. *)
AfterDir(w) ==
  [w EXCEPT !.todo = <<>>, !.d = @ + 1,
            !.pc = IF w.d = Len(w.chunk) THEN "done" ELSE "enter"]
AfterEntry(w) ==
  IF Tail(w.todo) = <<>> THEN AfterDir(w) ELSE [w EXCEPT !.todo = Tail(@)]

(* fs::canonicalize: the tree has no symbolic link, a directory's path is  *)
(* its canonical path. *)
Canonical(dir) == IF IsDir(dir) THEN Some(dir) ELSE None

(* One iteration of `for dir in chunk_dirs` up to the walker's loop: the   *)
(* Progress "Scanning <dir>", then the head of scan_directory (the         *)
(* processed_dirs check, the existence check and the walker). *)
SubEnter(r, c) ==
  /\ roots[r].workers[c].pc = "enter"
  /\ LET w == roots[r].workers[c]
         dir == w.chunk[w.d]
         canonical == Canonical(dir)
         seen == canonical # None /\ canonical[1] \in shared.processed_dirs
         entries == WalkEntries(dir, coord.max_depth, files)
         walked == IF seen THEN {} ELSE WalkDirs(dir, coord.max_depth)
     IN  IF shared.poisoned
           THEN /\ roots' = [roots EXCEPT ![r].workers[c].pc = "panicked"]
                /\ UNCHANGED <<chan, shared, hist>>
           ELSE /\ hist' = [hist EXCEPT !.traversed = @ \cup walked,
                                        !.retraversed = @ \cup (hist.traversed \cap walked),
                                        !.burst = @ \ {<<r, c>>}]
                /\ chan' = Send(chan, <<Progress("Scanning", shared.files_scanned,
                                                  shared.total_estimate)>>)
                /\ shared' = IF canonical # None
                               THEN [shared EXCEPT !.processed_dirs = @ \cup {canonical[1]}]
                               ELSE shared
                /\ roots' = [roots EXCEPT ![r].workers[c] =
                               IF seen \/ ~IsDir(dir) \/ entries = <<>> THEN AfterDir(w)
                               ELSE [w EXCEPT !.todo = entries, !.pc = "walk"]]
  /\ UNCHANGED <<app, coord, dirs, files, user>>

(* The estimate after a file has been counted: scanned is the new count.   *)
(* AdjustEstimateHalving scales by 50 / 100 for 150 / 100, and             *)
(* AdjustEstimateUnscaled does not scale.                                  *)
AdjustEstimateHalving(scanned, total) ==
  LET grown == IF scanned > (total * 50) \div 100 THEN (total * 50) \div 100 ELSE total
  IN  IF (scanned * 100) \div grown > 95 /\ scanned < grown
        THEN (scanned * 105) \div 100
        ELSE grown
AdjustEstimateUnscaled(scanned, total) ==
  IF (scanned * 100) \div total > 95 /\ scanned < total
    THEN (scanned * 105) \div 100
    ELSE total
AdjustEstimate(scanned, total) ==
  LET grown == IF scanned > (total * 50) \div 100 THEN (total * 150) \div 100 ELSE total
  IN  IF (scanned * 100) \div grown > 95 /\ scanned < grown
        THEN (scanned * 105) \div 100
        ELSE grown

(* The loop body on a regular file: the counters, the estimate and the     *)
(* Progress that is sent when more than 500 ms have passed since the last  *)
(* one (elapsed), at most MaxPeriodic times in a scan. *)
SubFile(r, c) ==
  /\ roots[r].workers[c].pc = "walk"
  /\ Head(roots[r].workers[c].todo).is_file
  /\ ~Head(roots[r].workers[c].todo).error
  /\ LET w == roots[r].workers[c]
         scanned == shared.files_scanned + 1
         total == AdjustEstimate(scanned, shared.total_estimate)
     IN  IF shared.poisoned
           THEN /\ roots' = [roots EXCEPT ![r].workers[c].pc = "panicked"]
                /\ UNCHANGED <<chan, shared, hist>>
           ELSE /\ shared' = [shared EXCEPT !.files_scanned = scanned,
                                             !.total_estimate = total]
                /\ roots' = [roots EXCEPT ![r].workers[c] = AfterEntry(w),
                                           ![r].drive_files_scanned = @ + 1]
                /\ \E elapsed \in {FALSE} \cup {hist.periodic < MaxPeriodic} :
                     /\ chan' = IF elapsed
                                  THEN Send(chan, <<Progress("Scanning", scanned, total)>>)
                                  ELSE chan
                     /\ hist' = IF elapsed
                                  THEN [hist EXCEPT !.periodic = @ + 1, !.burst = {<<r, c>>}]
                                  ELSE hist
  /\ UNCHANGED <<app, coord, dirs, files, user>>

(* The loop body on a directory named Backup: the Progress, then           *)
(* scan_backup_folder with the directory's parent as the project folder. *)
SubBackupFolder(r, c) ==
  /\ roots[r].workers[c].pc = "walk"
  /\ ~Head(roots[r].workers[c].todo).is_file
  /\ ~Head(roots[r].workers[c].todo).error
  /\ LET w == roots[r].workers[c]
         path == Head(w.todo).path
         found == scan_backup_folder(path, Front(path), files)
     IN  IF shared.poisoned
           THEN /\ roots' = [roots EXCEPT ![r].workers[c].pc = "panicked"]
                /\ UNCHANGED <<chan, hist>>
           ELSE /\ chan' = Send(chan, <<Progress("Found FL Studio backup folder",
                                                  shared.files_scanned, shared.total_estimate)>>
                                        \o found)
                /\ roots' = [roots EXCEPT ![r].workers[c] =
                               [AfterEntry(w) EXCEPT !.dirs_found = @ + Len(found)]]
                /\ hist' = [hist EXCEPT
                      !.found_sent = @ + Len(found),
                      !.late_found = IF hist.complete_sent > 0 THEN @ + Len(found) ELSE @,
                      !.unspaced = IF <<r, c>> \in hist.burst THEN 1 ELSE @,
                      !.burst = @ \cup {<<r, c>>}]
  /\ UNCHANGED <<app, coord, shared, dirs, files, user>>

(* The loop's Err arm: the Progress "Skipping inaccessible path" when more *)
(* than 5 s have passed since the last one (elapsed), then `continue`.     *)
(* SubErrorReturning is the arm leaving scan_directory with the error.     *)
SubErrorReturning(r, c) ==
  /\ roots[r].workers[c].pc = "walk"
  /\ Head(roots[r].workers[c].todo).error
  /\ chan' = Send(chan, <<Progress("Error scanning", shared.files_scanned,
                                    shared.total_estimate)>>)
  /\ roots' = [roots EXCEPT ![r].workers[c] = AfterDir(roots[r].workers[c])]
  /\ hist' = [hist EXCEPT !.errors = @ + 1]
  /\ UNCHANGED <<app, coord, shared, dirs, files, user>>
SubError(r, c) ==
  /\ roots[r].workers[c].pc = "walk"
  /\ Head(roots[r].workers[c].todo).error
  /\ \E elapsed \in {FALSE} \cup {hist.periodic < MaxPeriodic} :
       IF elapsed /\ shared.poisoned
         THEN /\ roots' = [roots EXCEPT ![r].workers[c].pc = "panicked"]
              /\ UNCHANGED <<chan, hist>>
         ELSE /\ chan' = IF elapsed
                           THEN Send(chan, <<Progress("Skipping inaccessible path",
                                                      shared.files_scanned,
                                                      shared.total_estimate)>>)
                           ELSE chan
              /\ roots' = [roots EXCEPT ![r].workers[c] = AfterEntry(roots[r].workers[c])]
              /\ hist' = [hist EXCEPT !.errors = @ + 1,
                                      !.periodic = IF elapsed THEN @ + 1 ELSE @,
                                      !.burst = IF elapsed THEN {<<r, c>>} ELSE @]
  /\ UNCHANGED <<app, coord, shared, dirs, files, user>>

(***************************************************************************)
(* The scan and the UI with every thread running to its end.               *)
(***************************************************************************)
RootIds == 1..Len(roots)
SubIds(r) == 1..Len(roots[r].workers)

Next ==
  \/ UpdateIdle
  \/ UpdateSettings
  \/ UpdateScanClick
  \/ UpdateCleanClick
  \/ CoordBegin
  \/ CoordEstimate
  \/ CoordSpawn
  \/ CoordJoin
  \/ CoordVerify
  \/ CoordFinal
  \/ CoordWarnFew
  \/ CoordComplete
  \/ CoordAutoClean
  \/ \E r \in RootIds : RootStart(r)
  \/ \E r \in RootIds : RootJoin(r)
  \/ \E r \in RootIds : RootFinish(r)
  \/ \E r \in RootIds : \E c \in SubIds(r) : SubEnter(r, c)
  \/ \E r \in RootIds : \E c \in SubIds(r) : SubFile(r, c)
  \/ \E r \in RootIds : \E c \in SubIds(r) : SubBackupFolder(r, c)
  \/ \E r \in RootIds : \E c \in SubIds(r) : SubError(r, c)

Spec == Init /\ [][Next]_vars

(***************************************************************************)
(* Threads that terminate abnormally: a panic ends the thread, its         *)
(* JoinHandle yields Err, and a Mutex it held is poisoned, so that every   *)
(* later lock().unwrap() on it panics in turn.  At most MaxPanics panics   *)
(* start in a scan; the panics that follow from a poisoned lock are part   *)
(* of the actions above.                                                   *)
(***************************************************************************)
(* A sub-worker panics holding no lock. *)
SubPanic(r, c) ==
  /\ hist.panics < MaxPanics
  /\ roots[r].workers[c].pc \in {"enter", "walk"}
  /\ roots' = [roots EXCEPT ![r].workers[c].pc = "panicked"]
  /\ hist' = [hist EXCEPT !.panics = @ + 1]
  /\ UNCHANGED <<app, chan, coord, shared, dirs, files, user>>

(* A sub-worker panics inside the block of scan_directory that holds the   *)
(* counters' locks (its arithmetic is checked in a debug build). *)
SubPanicLocked(r, c) ==
  /\ hist.panics < MaxPanics
  /\ roots[r].workers[c].pc = "walk"
  /\ Head(roots[r].workers[c].todo).is_file
  /\ ~shared.poisoned
  /\ roots' = [roots EXCEPT ![r].workers[c].pc = "panicked"]
  /\ shared' = [shared EXCEPT !.poisoned = TRUE]
  /\ hist' = [hist EXCEPT !.panics = @ + 1]
  /\ UNCHANGED <<app, chan, coord, dirs, files, user>>

(* A root worker panics in its spawn loop (thread::spawn panics when the   *)
(* OS cannot create the thread): the sub-workers spawned so far, the first *)
(* k, run on with nobody to join them. *)
RootPanic(r) ==
  /\ hist.panics < MaxPanics
  /\ roots[r].pc = "start"
  /\ LET top_dirs == get_top_level_directories(coord.drives[r])
         workers == SpawnedWorkers(top_dirs, coord.max_threads)
     IN  /\ top_dirs # <<>>
         /\ \E k \in 0..(Len(workers) - 1) :
              roots' = [roots EXCEPT ![r].workers = SubSeq(workers, 1, k),
                                     ![r].pc = "panicked"]
  /\ hist' = [hist EXCEPT !.panics = @ + 1]
  /\ UNCHANGED <<app, chan, coord, shared, dirs, files, user>>

AbnormalScenarios ==
  {[tree |-> TwoProjects, saved |-> SettingsOf({Home}, MaxThreads, TRUE),
    inputs |-> <<ScanClick>>]}
  \cup
  {[tree |-> OneProject, saved |-> SettingsOf({Home}, 1, auto),
    inputs |-> <<ScanClick, ApplySettings(SettingsOf({Mnt}, 1, auto))>>] : auto \in BOOLEAN}
  \cup
  {[tree |-> LockedDir, saved |-> SettingsOf({Home}, 1, FALSE), inputs |-> <<ScanClick>>]}

InitAbnormal == InitFrom(AbnormalScenarios)

NextAbnormal ==
  \/ Next
  \/ \E r \in RootIds : \E c \in SubIds(r) : SubPanic(r, c)
  \/ \E r \in RootIds : \E c \in SubIds(r) : SubPanicLocked(r, c)
  \/ \E r \in RootIds : RootPanic(r)

SpecAbnormal == InitAbnormal /\ [][NextAbnormal]_vars

(* Sub-workers that terminate abnormally, every thread::spawn succeeding. *)
NextSubPanics ==
  \/ Next
  \/ \E r \in RootIds : \E c \in SubIds(r) : SubPanic(r, c)
  \/ \E r \in RootIds : \E c \in SubIds(r) : SubPanicLocked(r, c)

SpecSubPanics == InitAbnormal /\ [][NextSubPanics]_vars

(***************************************************************************)
(* The estimate around its first rescaling.  A scan of "/home", alone or   *)
(* with "/mnt" (which the tree does not hold and whose root worker has     *)
(* returned), is in the middle of a directory of many regular files: its   *)
(* one sub-worker has counted all but EstBefore, or fewer, of the files    *)
(* that make half of the initial estimate, EstFiles more entries are to    *)
(* come, and the UI thread has taken the Progress of the last file         *)
(* counted.                                                                *)
(***************************************************************************)
EstBefore == 2
EstFiles == 3
EstRescales == 2

(* The estimate after n rescalings by 150 / 100. *)
RECURSIVE Rescaled(_, _)
Rescaled(total, n) == IF n = 0 THEN total ELSE Rescaled((total * 150) \div 100, n - 1)

(* The name of the i-th file to come. *)
EstName(i) == [j \in 1..i |-> "f"]
EstTodoIn(dir) ==
  [i \in 1..EstFiles |-> [path |-> dir \o <<EstName(i)>>, is_file |-> TRUE, error |-> FALSE]]
EstTodo == EstTodoIn(<<nHome, nA>>)
(* The sub-workers at their walks: one with all the files to come, or two  *)
(* that share them.                                                        *)
EstWorkers(split) ==
  IF split
    THEN <<[NewWorker(<<<<nHome, nA>>>>) EXCEPT !.pc = "walk", !.todo = SubSeq(EstTodo, 1, 1)],
           [NewWorker(<<<<nHome, nD>>>>) EXCEPT
              !.pc = "walk", !.todo = SubSeq(EstTodoIn(<<nHome, nD>>), 2, EstFiles)]>>
    ELSE <<[NewWorker(<<<<nHome, nA>>>>) EXCEPT !.pc = "walk", !.todo = EstTodo]>>

InitEstimate ==
  \E with_mnt \in BOOLEAN, split \in BOOLEAN, before \in 0..EstBefore, n \in 0..EstRescales :
    LET selected == IF with_mnt THEN {Home, Mnt} ELSE {Home}
        a0 == start_scan(FlBackupCleaner_new(SettingsOf(selected, 1, FALSE)))
        drives == selected_drives(a0)
        total == Rescaled(Len(drives) * base_estimate_per_drive, n)
        scanned == total \div 2 - before
        home == [IdleRoot EXCEPT !.pc = "join", !.j = 1, !.drive_files_scanned = scanned,
                                 !.workers = EstWorkers(split)]
        mnt == [IdleRoot EXCEPT !.pc = "done"]
    IN  /\ app = ShowProgress(ApplyMessage(a0, Progress("Scanning", scanned, total)))
        /\ chan = <<>>
        /\ coord = [SpawnedCoord(a0) EXCEPT !.pc = "join", !.i = 1]
        /\ roots = IF with_mnt THEN <<home, mnt>> ELSE <<home>>
        /\ shared = [FreshShared EXCEPT !.files_scanned = scanned, !.total_estimate = total,
                                        !.completed_drives = IF with_mnt THEN {Mnt} ELSE {},
                                        !.processed_dirs =
                                           {w.chunk[1] : w \in Range(EstWorkers(split))}]
        /\ dirs = {<<>>, <<nHome>>} \cup {w.chunk[1] : w \in Range(EstWorkers(split))}
        /\ files = UNION {{e.path : e \in Range(w.todo)} : w \in Range(EstWorkers(split))}
        /\ user = <<>>
        /\ hist = [FreshHist EXCEPT !.traversed = {w.chunk[1] : w \in Range(EstWorkers(split))}]

NextEstimate ==
  \/ UpdateIdle
  \/ CoordJoin
  \/ CoordVerify
  \/ CoordFinal
  \/ CoordComplete
  \/ \E r \in RootIds : RootJoin(r)
  \/ \E r \in RootIds : RootFinish(r)
  \/ \E r \in RootIds : \E c \in SubIds(r) : SubFile(r, c)

SpecEstimate == InitEstimate /\ [][NextEstimate]_vars

(***************************************************************************)
(* clean_backups by itself: it is called, up to MaxCleans times in         *)
(* succession, on the struct a completed scan has left, the scan having    *)
(* sent up to MaxFound FoundBackup messages for files of the tree in any   *)
(* order (a path more than once when selected roots are nested), and any   *)
(* of the files found having gone since (the other files play no part).    *)
(***************************************************************************)
MaxFound == 5
MaxCleans == 2

(* The files the messages are about: those of the tree and, beside         *)
(* 'b#c (overwritten at 9h00).flp', a 'b#c (overwritten at 09h00).flp',    *)
(* which has the same project and the same time value.                     *)
nBC0900 == <<"b", "#", "c", Marker, "0", "9", "h", "0", "0", ")", ".flp">>
CleanFiles ==
  FilesIn(TwoProjects) \cup {<<nHome, nA, nBackup, nBC0900>>}

(* The FoundBackup message scan_backup_folder sends for the file f. *)
FoundMessage(f) ==
  LET backup_file == BackupFile_new(f, {f})
  IN  [type |-> "FoundBackup",
       key |-> ProjectKey(Front(Front(f)), backup_file[1].project_name),
       backup |-> backup_file[1]]

InitClean ==
  \E n \in 0..MaxFound : \E found \in [1..n -> CleanFiles] : \E existing \in SUBSET Range(found) :
    /\ app = AfterMessages(start_scan(FlBackupCleaner_new(SettingsOf({Home}, 1, FALSE))),
                           [i \in 1..n |-> FoundMessage(found[i])] \o <<Complete(n)>>)
    /\ chan = <<>>
    /\ coord = [IdleCoord EXCEPT !.pc = "done"]
    /\ roots = <<>>
    /\ shared = FreshShared
    /\ dirs = TwoProjects
    /\ files = existing
    /\ user = <<>>
    /\ hist = [FreshHist EXCEPT !.found_sent = n, !.complete_sent = 1,
                                !.received = Range(found), !.at_complete = Some(n)]

(* A call of clean_backups. *)
CleanBackups ==
  /\ hist.clean_calls < MaxCleans
  /\ \E order \in Orders(DOMAIN app.found_backups) :
       LET clean == CleanApp(app, files, order)
       IN  /\ app' = clean.app
           /\ files' = clean.files
           /\ hist' = [hist EXCEPT !.before = clean.before,
                                   !.attempted = clean.attempted,
                                   !.removed = files \ clean.files,
                                   !.saved_before = app.total_size_saved,
                                   !.clean_calls = @ + 1,
                                   !.cleans = @ + 1,
                                   !.stray = @ \cup (Range(clean.attempted) \ hist.received)]
  /\ UNCHANGED <<chan, coord, roots, shared, dirs, user>>

NextClean == CleanBackups

SpecClean == InitClean /\ [][NextClean]_vars

(***************************************************************************)
(* BackupFile::new by itself: it is applied to a file that exists and is   *)
(* named <name> (overwritten at <H>h<MM>).flp, the name having up to       *)
(* MaxNameLen characters, among them a line feed and the marker itself, H  *)
(* one or two digits and MM two digits.  hist.parsed holds the parts of    *)
(* the name and, once the function has returned, its result.               *)
(***************************************************************************)
MaxNameLen == 2
NameChars == {"F", "1", LineFeed, Marker}
HourDigits == {"0", "3", "9"}
MinuteDigits == {"0", "5", "9"}
Strings(chars, lo, hi) == UNION {[1..n -> chars] : n \in lo..hi}

BackupName(name, hours, minutes) ==
  name \o <<Marker>> \o hours \o <<"h">> \o minutes \o <<")", ".flp">>

InitParse ==
  \E name \in Strings(NameChars, 1, MaxNameLen) :
    \E hours \in Strings(HourDigits, 1, 2) : \E minutes \in Strings(MinuteDigits, 2, 2) :
      /\ app = FlBackupCleaner_new(SettingsOf({Home}, 1, FALSE))
      /\ chan = <<>>
      /\ coord = IdleCoord
      /\ roots = <<>>
      /\ shared = FreshShared
      /\ dirs = OneProject
      /\ files = {<<nHome, nA, nBackup, BackupName(name, hours, minutes)>>}
      /\ user = <<>>
      /\ hist = [FreshHist EXCEPT !.parsed = Some([name |-> name, hours |-> hours,
                                                   minutes |-> minutes, returned |-> FALSE,
                                                   backup_file |-> None])]

(* BackupFile::new(path) on the file. *)
ParseFile ==
  /\ ~hist.parsed[1].returned
  /\ \E path \in files :
       hist' = [hist EXCEPT !.parsed[1].returned = TRUE,
                            !.parsed[1].backup_file = BackupFile_new(path, files)]
  /\ UNCHANGED <<app, chan, coord, roots, shared, dirs, files, user>>

NextParse == ParseFile

SpecParse == InitParse /\ [][NextParse]_vars

(***************************************************************************)
(* The loop of scan_backup_folder on one file of a Backup folder whose     *)
(* name may miss the format: the project name may be empty, the marker     *)
(* absent or spelt with a capital, the minutes one digit, the extension    *)
(* absent or in capitals.  hist.parsed holds the parts of the name, the    *)
(* result of BackupFile::new and the messages the loop has sent.           *)
(***************************************************************************)
WrongMarker == " (Overwritten at "
MatchNames == {<<>>, <<"F">>, <<Marker>>}
MatchMarkers == {<<Marker>>, <<WrongMarker>>, <<>>}
MatchExtensions == {<<".flp">>, <<".FLP">>, <<>>}

InitMatch ==
  \E name \in MatchNames : \E marker \in MatchMarkers : \E ext \in MatchExtensions :
    \E hours \in Strings(HourDigits, 1, 2) : \E minutes \in Strings(MinuteDigits, 1, 2) :
      /\ app = start_scan(FlBackupCleaner_new(SettingsOf({Home}, 1, FALSE)))
      /\ chan = <<>>
      /\ coord = IdleCoord
      /\ roots = <<>>
      /\ shared = FreshShared
      /\ dirs = OneProject
      /\ files = {<<nHome, nA, nBackup,
                    name \o marker \o hours \o <<"h">> \o minutes \o <<")">> \o ext>>}
      /\ user = <<>>
      /\ hist = [FreshHist EXCEPT !.parsed = Some([name |-> name, marker |-> marker,
                                                   hours |-> hours, minutes |-> minutes,
                                                   ext |-> ext, returned |-> FALSE,
                                                   backup_file |-> None])]

(* The body of `for entry in entries` on the file. *)
MatchFile ==
  /\ ~hist.parsed[1].returned
  /\ \E path \in files :
       /\ hist' = [hist EXCEPT !.parsed[1].returned = TRUE,
                               !.parsed[1].backup_file = BackupFile_new(path, files)]
       /\ chan' = Send(chan, FoundIn(<<Last(path)>>, Front(path), Front(Front(path)), files))
  /\ UNCHANGED <<app, coord, roots, shared, dirs, files, user>>

NextMatch == MatchFile

SpecMatch == InitMatch /\ [][NextMatch]_vars

(***************************************************************************)
(* The properties.                                                         *)
(***************************************************************************)
(* The coordinator is past its join loop, every root worker has returned   *)
(* and every sub-worker has ended, its join having returned Ok or Err.     *)
Joined ==
  /\ coord.pc \in {"verify", "final", "few", "complete", "auto", "done"}
  /\ \A r \in RootIds :
       /\ roots[r].pc = "done"
       /\ \A c \in SubIds(r) : Terminated(roots[r].workers[c])

(* No thread of the scan runs any more. *)
ThreadsEnded ==
  /\ Terminated(coord)
  /\ \A r \in RootIds :
       /\ roots[r].pc \in {"idle", "done", "panicked"}
       /\ \A c \in SubIds(r) : Terminated(roots[r].workers[c])

RECURSIVE MaxTime(_)
MaxTime(backups) ==
  IF Len(backups) = 1 THEN get_time_value(backups[1])
  ELSE Max2(get_time_value(Head(backups)), MaxTime(Tail(backups)))

(* The folder that holds the Backup directory of a backup file. *)
ParentFolder(path) == Front(Front(path))

(* C1: after a scan followed by clean_backups, the file of the entry each  *)
(* project retains still exists, and no delete was attempted on its path.  *)
C1_RetainedFileSurvives ==
  hist.clean_calls > 0 =>
    \A k \in DOMAIN app.found_backups :
      /\ app.found_backups[k][1].path \in files
      /\ app.found_backups[k][1].path \notin Range(hist.attempted)

(* C2: after clean_backups every project that had more than one entry has  *)
(* exactly one, whose time value is the maximum of those it had.           *)
C2_NewestRetained ==
  hist.clean_calls > 0 =>
    \A k \in DOMAIN hist.before :
      Len(hist.before[k]) > 1 =>
        /\ k \in DOMAIN app.found_backups
        /\ Len(app.found_backups[k]) = 1
        /\ get_time_value(app.found_backups[k][1]) = MaxTime(hist.before[k])
C2_Witness ==
  /\ hist.clean_calls > 0
  /\ \E k \in DOMAIN hist.before :
       /\ [i \in 1..Len(hist.before[k]) |-> get_time_value(hist.before[k][i])]
            = <<540, 870, 539>>
       /\ get_time_value(app.found_backups[k][1]) = 870

(* C3: the entries of one collection of the found-map have the same parent *)
(* folder of their Backup directory and the same project name.             *)
C3_OneProjectPerCollection ==
  \A k \in DOMAIN app.found_backups :
    \A i, j \in 1..Len(app.found_backups[k]) :
      /\ ParentFolder(app.found_backups[k][i].path) = ParentFolder(app.found_backups[k][j].path)
      /\ app.found_backups[k][i].project_name = app.found_backups[k][j].project_name

C6_ScanEnds ==
  (coord.pc # "idle" /\ ThreadsEnded) =>
    /\ hist.complete_sent = 1
    /\ (chan = <<>> => ~app.is_scanning)

C8_CompleteCountsFound ==
  \A i \in 1..Len(chan) :
    (IsComplete(chan[i]) /\ hist.late_found = 0) => chan[i].total_found = hist.found_sent

C10_AutoCleanOnce ==
  (coord.pc = "done" /\ coord.auto_clean /\ coord.total_found > 0 /\ chan = <<>>) =>
    hist.clean_calls = 1

(* The regular files the walkers of a scan reach: those the walk of a      *)
(* top-level directory of a selected drive yields.                         *)
WalkedFiles(drive, max_depth, existing) ==
  UNION {{e.path : e \in {x \in Range(WalkEntries(t, max_depth, existing)) : x.is_file}}
           : t \in Range(get_top_level_directories(drive))}
ScannedTree == UNION {WalkedFiles(d, coord.max_depth, files) : d \in Range(coord.drives)}

(* C11: when the coordinator has read the final count, the shared counter  *)
(* of scanned files is the number of regular files in the scanned tree,    *)
(* also with several selected roots and several sub-workers.               *)
C11_CountIsNumberOfFiles ==
  coord.pc \in {"few", "complete"} => coord.final_scanned = Cardinality(ScannedTree)

(* C12: no directory is descended into twice in a scan, by two walkers or  *)
(* by one, whatever the roots and the chunks.                              *)
C12_TraversedOnce == hist.retraversed = {}

(* The percentage in hundredths of a percent, rounded down. *)
Hundredths(p) == (p.n \div p.d) * 100 + ((p.n % p.d) * 100) \div p.d

(* C13: while a scan is running, no step makes the reported progress       *)
(* percentage smaller than it was.                                         *)
C13_PercentageNeverDecreases ==
  [][app.is_scanning =>
       Hundredths(app.progress_percentage) <= Hundredths(app'.progress_percentage)]_vars

(* C14: while a scan is running and the consumer has not processed         *)
(* Complete, the reported progress percentage is below 100.                *)
C14_Below100BeforeComplete ==
  (app.is_scanning /\ ~app.scan_complete) =>
    app.progress_percentage.n < 100 * app.progress_percentage.d
C14_Witness ==
  /\ app.is_scanning
  /\ ~app.scan_complete
  /\ Len(coord.drives) = 2
  /\ app.files_scanned > 0
  /\ app.progress_percentage.n > 0

(* C15: the sub-workers of one root that run at the same time are never    *)
(* more than the configured max_scan_threads.                              *)
C15_SubWorkersBounded ==
  \A r \in RootIds :
    Cardinality({c \in SubIds(r) : ~Terminated(roots[r].workers[c])}) <= coord.max_threads

(* C16: clean_backups on a found-map whose projects have one entry each    *)
(* attempts no deletion, reports 0 deleted files and 0 bytes and leaves    *)
(* the found-map as it was.                                                *)
C16_NothingToClean ==
  (hist.clean_calls > 0 /\ \A k \in DOMAIN hist.before : Len(hist.before[k]) = 1) =>
    /\ hist.attempted = <<>>
    /\ app.deletion_status = Some(0)
    /\ app.total_size_saved = 0
    /\ app.found_backups = hist.before
C16_Witness ==
  /\ hist.clean_calls > 0
  /\ DOMAIN hist.before # {}
  /\ \A k \in DOMAIN hist.before : Len(hist.before[k]) = 1
  /\ hist.clean_calls = 2

(* The entries of the found-map `found` that carry the path p. *)
EntriesOf(found, p) ==
  Cardinality({e \in UNION {{<<k, i>> : i \in 1..Len(found[k])} : k \in DOMAIN found} :
                 found[e[1]][e[2]].path = p})
Occurrences(s, x) == Cardinality({i \in 1..Len(s) : s[i] = x})
RECURSIVE SizeOf(_)
SizeOf(paths) ==
  IF paths = {} THEN 0
  ELSE LET p == CHOOSE x \in paths : TRUE
       IN  SizeOnDisk(p) + SizeOf(paths \ {p})

(* C17: after clean_backups the deleted count is the number of files it    *)
(* removed and the reclaimed bytes are their sizes, a failed delete adding *)
(* to neither; and a delete was attempted on every entry of every project  *)
(* but the retained one, whether or not an earlier delete had failed.      *)
C17_FailedDeleteSkipped ==
  hist.clean_calls > 0 =>
    /\ app.deletion_status = Some(Cardinality(hist.removed))
    /\ app.total_size_saved = SizeOf(hist.removed)
    /\ \A p \in CleanFiles :
         Occurrences(hist.attempted, p)
           = EntriesOf(hist.before, p) - EntriesOf(app.found_backups, p)
(* A delete failed, the next one of the same project succeeded and so did  *)
(* one of another project.                                                 *)
C17_Witness ==
  /\ hist.clean_calls = 1
  /\ Len(hist.attempted) = 3
  /\ hist.attempted[1] \notin hist.removed
  /\ hist.attempted[2] \in hist.removed
  /\ hist.attempted[3] \in hist.removed
  /\ \E k \in DOMAIN hist.before :
       /\ Len(hist.before[k]) = 3
       /\ \A i \in 1..3 : hist.before[k][i].path # hist.attempted[3]

(* The directories a scan of the root r descends into. *)
ScannedDirs(r) ==
  UNION {WalkDirs(t, coord.max_depth) : t \in Range(get_top_level_directories(coord.drives[r]))}
Unlisted(r) == ~IsDir(coord.drives[r])

(* C18: a selected root whose listing fails gets no walker, finds nothing  *)
(* and its worker does not end abnormally; when the scan has ended with    *)
(* such a root selected, Complete has been sent once with the number of    *)
(* FoundBackup messages sent, and the directories of every other root      *)
(* have been traversed.                                                    *)
C18_UnlistedRootSkipped ==
  /\ \A r \in RootIds :
       Unlisted(r) => /\ roots[r].workers = <<>>
                      /\ roots[r].drive_found = 0
                      /\ roots[r].pc # "panicked"
  /\ (coord.pc = "done" /\ \E r \in 1..Len(coord.drives) : Unlisted(r)) =>
       /\ hist.complete_sent = 1
       /\ coord.total_found = hist.found_sent
       /\ \A r \in RootIds : roots[r].pc = "done" /\ ScannedDirs(r) \subseteq hist.traversed
C18_Witness ==
  /\ coord.pc = "done"
  /\ Len(coord.drives) = 2
  /\ \E r \in RootIds : Unlisted(r)
  /\ hist.found_sent = 2
  /\ app.scan_complete
  /\ app.total_files_found = 2

(* A unit of work of the root r has ended abnormally: its worker or one of *)
(* its sub-workers.                                                        *)
FailedToJoin(r) ==
  \/ roots[r].pc = "panicked"
  \/ \E c \in SubIds(r) : roots[r].workers[c].pc = "panicked"

(* C19: once the coordinator is past its join loop, a root one of whose    *)
(* units of work ended abnormally is not in the completed-roots set; and   *)
(* the coordinator does not end before it has sent Complete.               *)
C19_FailedRootIncomplete ==
  /\ coord.pc \in {"verify", "final", "few", "complete", "auto", "done"} =>
       \A r \in RootIds :
         FailedToJoin(r) => DriveName(coord.drives[r]) \notin shared.completed_drives
  /\ Terminated(coord) => hist.complete_sent = 1

(* The number a string of one or two decimal digits denotes. *)
NumberOf(digits) ==
  IF Len(digits) = 1 THEN DigitVal(digits[1])
  ELSE 10 * DigitVal(digits[1]) + DigitVal(digits[2])

(* C20: BackupFile::new on an existing file named                          *)
(* <name> (overwritten at <H>h<MM>).flp, name not empty, H of one or two   *)
(* digits, MM of two, returns a BackupFile with project_name = name,       *)
(* hours = H, minutes = MM and the time value 60 * H + MM.                 *)
C20_ParsesBackupName ==
  (hist.parsed # None /\ hist.parsed[1].returned) =>
    LET p == hist.parsed[1]
    IN  /\ p.backup_file # None
        /\ p.backup_file[1].project_name = p.name
        /\ p.backup_file[1].parsed_time = <<NumberOf(p.hours), NumberOf(p.minutes)>>
        /\ get_time_value(p.backup_file[1]) = 60 * NumberOf(p.hours) + NumberOf(p.minutes)

(* The file name misses the format in one of the four ways: no marker in   *)
(* it, an extension that is not flp, one digit of minutes, nothing before  *)
(* the marker.                                                             *)
MissesFormat(p) ==
  \/ Marker \notin Range(p.name \o p.marker)
  \/ p.ext # <<".flp">>
  \/ Len(p.minutes) = 1
  \/ p.name \o p.marker = <<Marker>>

(* C21: on a file whose name lacks the marker, has an extension other than *)
(* flp, has one digit of minutes or has an empty project name,             *)
(* BackupFile::new returns None and scan_backup_folder sends nothing.      *)
C21_NoMatch ==
  (hist.parsed # None /\ hist.parsed[1].returned /\ MissesFormat(hist.parsed[1])) =>
    /\ hist.parsed[1].backup_file = None
    /\ chan = <<>>
C21_Witness ==
  /\ hist.parsed # None
  /\ hist.parsed[1].returned
  /\ hist.parsed[1].name = <<"F">>
  /\ hist.parsed[1].marker = <<Marker>>
  /\ hist.parsed[1].ext = <<".flp">>
  /\ hist.parsed[1].hours = <<"3">>
  /\ hist.parsed[1].minutes = <<"5">>
  /\ chan = <<>>

(* C22: every path get_all_drives returns exists, so that every drive      *)
(* offered for selection and every drive a scan is started on exists.      *)
C22_OnlyExistingRoots ==
  /\ \A i \in 1..Len(get_all_drives) : IsDir(get_all_drives[i])
  /\ \A i \in 1..Len(available_drives) :
       available_drives[i].name \in app.settings.selected_drives
         => IsDir(available_drives[i].path)
  /\ \A r \in 1..Len(coord.drives) : IsDir(coord.drives[r])

(* The top-level directories of the drives the settings st select. *)
TopDirsOf(st) ==
  UNION {Range(get_top_level_directories(d)) : d \in Range(SelectedFrom(available_drives,
                                                                     st.selected_drives))}
(* What a scan does follows the settings st: the drives, the chunks of the *)
(* sub-workers, the depth of the walks and the AUTO_CLEAN signal.          *)
ScanFollows(st) ==
  /\ coord.drives = SelectedFrom(available_drives, st.selected_drives)
  /\ \A r \in RootIds :
       roots[r].workers # <<>> =>
         LET top_dirs == get_top_level_directories(coord.drives[r])
         IN  [c \in SubIds(r) |-> roots[r].workers[c].chunk]
               = Chunks(top_dirs, ChunkSize(Len(top_dirs), st.max_scan_threads))
  /\ hist.traversed \subseteq UNION {WalkDirs(t, st.scan_depth) : t \in TopDirsOf(st)}
  /\ hist.auto_sent > 0 => st.auto_clean
  /\ (coord.pc = "done" /\ coord.total_found > 0 /\ st.auto_clean) => hist.auto_sent = 1

AllEntries(found) == UNION {Range(found[k]) : k \in DOMAIN found}
RECURSIVE RecordedSize(_, _)
RecordedSize(found, paths) ==
  IF paths = {} THEN 0
  ELSE LET p == CHOOSE x \in paths : TRUE
           e == CHOOSE x \in AllEntries(found) : x.path = p
       IN  e.file_size + RecordedSize(found, paths \ {p})

(* C24: after a call of clean_backups the deleted count is the number of   *)
(* deletes that succeeded in that call and the reclaimed bytes are the sum *)
(* of the file_size recorded at scan time in the entries deleted in that   *)
(* call, nothing of an earlier call being carried over.                    *)
C24_TotalsOfThisCall ==
  hist.clean_calls > 0 =>
    /\ hist.removed \subseteq {e.path : e \in AllEntries(hist.before)}
    /\ app.deletion_status = Some(Cardinality(hist.removed))
    /\ app.total_size_saved = RecordedSize(hist.before, hist.removed)
(* A second call, which deletes nothing, after a first call that deleted.  *)
C24_Witness ==
  /\ hist.clean_calls = 2
  /\ hist.removed = {}
  /\ app.total_size_saved = 0
  /\ hist.saved_before > 0

(* C25: a call of clean_backups attempts no delete on the entry of a       *)
(* project that has one entry, removes no such file and leaves the         *)
(* project's collection as it was.                                         *)
C25_SingleEntryUntouched ==
  hist.clean_calls > 0 =>
    \A k \in DOMAIN hist.before :
      Len(hist.before[k]) = 1 =>
        /\ hist.before[k][1].path \notin Range(hist.attempted)
        /\ hist.before[k][1].path \notin hist.removed
        /\ k \in DOMAIN app.found_backups
        /\ app.found_backups[k] = hist.before[k]
(* A call on a map with a project of one entry, whose file exists, and a   *)
(* project of three, of which two are removed.                             *)
C25_Witness ==
  /\ hist.clean_calls = 1
  /\ \E k \in DOMAIN hist.before :
       Len(hist.before[k]) = 1 /\ hist.before[k][1].path \in files
  /\ \E k \in DOMAIN hist.before : Len(hist.before[k]) = 3
  /\ Cardinality(hist.removed) = 2

(* The first of the entries of backups that have the largest time value. *)
FirstOfLatest(backups) ==
  LET latest == {i \in 1..Len(backups) :
                   \A j \in 1..Len(backups) :
                     get_time_value(backups[j]) <= get_time_value(backups[i])}
  IN  backups[CHOOSE i \in latest : \A j \in latest : i <= j]

(* C26: after clean_backups a project that had several entries keeps, of   *)
(* the entries with the largest time value, the one appended first, and a  *)
(* delete was attempted on the path of every other entry.                  *)
C26_FirstOfLatestRetained ==
  hist.clean_calls > 0 =>
    \A k \in DOMAIN hist.before :
      Len(hist.before[k]) > 1 =>
        /\ app.found_backups[k] = <<FirstOfLatest(hist.before[k])>>
        /\ \A i \in 1..Len(hist.before[k]) :
             hist.before[k][i].path # FirstOfLatest(hist.before[k]).path
               => hist.before[k][i].path \in Range(hist.attempted)
(* A project whose second and third entries, two files, share the largest  *)
(* time value: the second is kept, the third removed.                      *)
C26_Witness ==
  /\ hist.clean_calls = 1
  /\ \E k \in DOMAIN hist.before :
       /\ Len(hist.before[k]) = 3
       /\ [i \in 1..3 |-> get_time_value(hist.before[k][i])] = <<539, 540, 540>>
       /\ hist.before[k][2].path # hist.before[k][3].path
       /\ app.found_backups[k][1].path = hist.before[k][2].path
       /\ hist.before[k][3].path \in hist.removed
       /\ hist.before[k][2].path \in files

CeilDiv(n, m) == (n + m - 1) \div m

(* C27: the sub-workers of a root have the contiguous chunks of size       *)
(* max(1, ceil(n / max_threads)) of its n top-level directories, one       *)
(* sub-worker per chunk.                                                   *)
C27_ChunksOfCeiling ==
  \A r \in RootIds :
    roots[r].workers # <<>> =>
      LET top_dirs == get_top_level_directories(coord.drives[r])
      IN  [c \in SubIds(r) |-> roots[r].workers[c].chunk]
            = Chunks(top_dirs, Max2(1, CeilDiv(Len(top_dirs), coord.max_threads)))

IsPrefix(s, t) == Len(s) <= Len(t) /\ SubSeq(t, 1, Len(s)) = s
(* The walkers' starting directories, and the depth of the path p below    *)
(* the starting directory start.                                           *)
StartDirs == UNION {Range(get_top_level_directories(d)) : d \in Range(coord.drives)}
DepthBelow(start, p) == Len(p) - Len(start)

(* C28: every directory a walker has descended into lies less than         *)
(* max_depth below a starting directory, and every file a FoundBackup was  *)
(* sent for lies at most max_depth below one.                              *)
C28_DepthIsHardBound ==
  /\ \A p \in hist.traversed :
       \E t \in StartDirs : IsPrefix(t, p) /\ DepthBelow(t, p) < coord.max_depth
  /\ \A p \in hist.received \cup FoundPaths(chan) :
       \E t \in StartDirs : IsPrefix(t, p) /\ DepthBelow(t, p) <= coord.max_depth

(* A name of the skip list of scan_directory in any case, or one that      *)
(* starts with "." or "~".                                                 *)
SkippedName(name) ==
  \/ LowerName(name) \in {LowerName(skip) : skip \in WalkSkipDirs}
  \/ name[1] \in {".", "~"}
BelowSkipped(p) == \E i \in 1..Len(p) : SkippedName(p[i])

Reaches(start, p) ==
  /\ IsPrefix(start, p)
  /\ Len(p) - Len(start) <= coord.max_depth
  /\ \A i \in 1..Len(p) : i >= Len(start) /\ i > 0 => ~SkippedName(p[i])
  /\ \A i \in Len(start)..(Len(p) - 1) : SubSeq(p, 1, i) \notin Unreadable
Readable(start, p) == p \in dirs /\ Reaches(start, p) /\ p \notin Unreadable
BackupsBelow(chunk) ==
  {f \in files : /\ \E i \in 1..Len(chunk) : Readable(chunk[i], Front(f))
                 /\ Last(Front(f)) = nBackup
                 /\ HasFlpExtension(f)
                 /\ BackupFile_new(f, files) # None}

(* C30: a traversal error ends neither the walk nor the sub-worker: a      *)
(* sub-worker that has ended in a scan of one root without a panic has     *)
(* descended into every readable directory its walks reach, in every       *)
(* directory of its chunk, and has sent a FoundBackup for every backup in  *)
(* the readable Backup directories among them (the files being those of    *)
(* the scan, while no clean-up has removed any).                           *)
C30_ErrorSkipsOneEntry ==
  hist.panics = 0 /\ Len(coord.drives) = 1 /\ hist.clean_calls = 0 =>
    \A r \in 1..Len(roots) : \A c \in 1..Len(roots[r].workers) :
      LET w == roots[r].workers[c]
      IN  w.pc = "done" =>
            /\ \A i \in 1..Len(w.chunk) : \A p \in dirs :
                 Readable(w.chunk[i], p) /\ Len(p) - Len(w.chunk[i]) < coord.max_depth
                   => p \in hist.traversed
            /\ w.dirs_found = Cardinality(BackupsBelow(w.chunk))
C30_Witness ==
  /\ coord.pc = "done"
  /\ hist.errors = 1
  /\ hist.panics = 0
  /\ hist.clean_calls = 0
  /\ <<nHome, nA, nLocked, nBackup, nC859>> \in files
  /\ Len(roots) = 1 /\ Len(roots[1].workers) = 1
  /\ roots[1].workers[1].pc = "done"
  /\ roots[1].workers[1].chunk = <<<<nHome, nA>>, <<nHome, nAB>>>>
  /\ roots[1].workers[1].dirs_found = 3
  /\ <<nHome, nAB, nBackup>> \in hist.traversed

(* The Progress messages that report an error or a warning. *)
ErrorTexts ==
  {"Error scanning", "Skipping inaccessible path", "Thread error on",
   "Warning: Some drives were not fully scanned", "No scannable directories found on"}
Reported(messages) ==
  {messages[i].msg : i \in {j \in 1..Len(messages) : messages[j].type = "Progress"}}
CompleteTotals(messages) ==
  {messages[i].total_found : i \in {j \in 1..Len(messages) : IsComplete(messages[j])}}

(* C31: a backup whose size lookup fails is dropped without a trace: no    *)
(* FoundBackup is sent or received for it, and in a scan of the folder     *)
(* that holds it the Complete total counts the backups with a size only    *)
(* and no Progress reports an error or a warning.                          *)
C31_NoSizeDiscarded ==
  /\ \A p \in hist.received \cup FoundPaths(chan) : p \notin NoMetadata
  /\ files \cap NoMetadata # {} /\ hist.clean_calls = 0 =>
       /\ CompleteTotals(chan) \subseteq {Cardinality(files \ NoMetadata)}
       /\ app.scan_complete => app.total_files_found = Cardinality(files \ NoMetadata)
       /\ Reported(chan) \cap ErrorTexts = {}
C31_Witness ==
  /\ <<nHome, nE, nBackup, nBC900>> \in files
  /\ app.scan_complete
  /\ app.total_files_found = 1
  /\ hist.received = {<<nHome, nE, nBackup, nC859>>}
  /\ shared.files_scanned = 2
  /\ hist.errors = 0

(* C32: every estimator update of a running scan leaves the count at most  *)
(* 95 hundredths of the estimate and at most the estimate.                 *)
C32_AtMost95Percent ==
  [][shared'.files_scanned # shared.files_scanned =>
       /\ (shared'.files_scanned * 100) \div shared'.total_estimate <= 95
       /\ shared'.files_scanned <= shared'.total_estimate]_vars
C32_Witness ==
  /\ app.is_scanning
  /\ Len(roots[1].workers) = 2
  /\ shared.files_scanned = (base_estimate_per_drive \div 2) + 1
  /\ shared.total_estimate = (base_estimate_per_drive * 150) \div 100

(* C35: every estimator update leaves the count at most half of the        *)
(* estimate, and the estimate either as it was or scaled by 150 / 100:     *)
(* the branch that sets it to 105 hundredths of the count is not taken.    *)
C35_AtMostHalf ==
  [][shared'.files_scanned # shared.files_scanned =>
       /\ shared'.files_scanned <= (shared'.total_estimate * 50) \div 100
       /\ shared'.total_estimate \in
            {shared.total_estimate, (shared.total_estimate * 150) \div 100}
       /\ shared'.total_estimate # (shared'.files_scanned * 105) \div 100]_vars
C35_Witness ==
  /\ app.is_scanning
  /\ Len(coord.drives) = 2
  /\ shared.total_estimate = Rescaled(2 * base_estimate_per_drive, 2)
  /\ shared.files_scanned = (Rescaled(2 * base_estimate_per_drive, 1) \div 2) + 1

(* The step is a frame in which the scan button is clicked. *)
ScanClicked == user # <<>> /\ Head(user).input = "scan" /\ user' = Tail(user)

C34_ProgressSpaced == hist.unspaced = 0

(***************************************************************************)
(* The scan's threads at the grain of their locks.  A thread is <<>> (the  *)
(* coordinator), <<r>> (a root worker) or <<r, c>> (a sub-worker).  Each   *)
(* statement that locks is a site: the mutexes it locks, in the order it   *)
(* locks them; a thread takes them one at a time, waiting for a mutex that *)
(* is held, and releases them where the guards go out of scope.  The       *)
(* guards of the temporaries `*m.lock().unwrap()` in the arguments of a    *)
(* send live to the end of that statement.  The messages and the counts    *)
(* are left out.                                                           *)
(***************************************************************************)
mFilesScanned == <<"files_scanned">>
mTotalEstimate == <<"total_estimate">>
mCompleted == <<"completed_drives">>
mProcessed == <<"processed_dirs">>
mDrive(r) == <<"drive_files_scanned", r>>

Held(t) == {p[1] : p \in {q \in shared.held : q[2] = t}}
IsFree(m) == \A p \in shared.held : p[1] # m

(* The coordinator's sites: the first Progress (244-248), the Progress of  *)
(* a drive (263-267), `let completed` (385), the warning (401-405) and the *)
(* two final reads (410, 411). *)
CoordSite ==
  CASE coord.pc = "estimate" -> <<mTotalEstimate>>
    [] coord.pc = "spawn" -> <<mFilesScanned, mTotalEstimate>>
    [] coord.pc = "verify" -> <<mCompleted>>
    [] coord.pc = "warn" -> <<mFilesScanned, mTotalEstimate>>
    [] coord.pc = "final" -> <<mFilesScanned>>
    [] coord.pc = "final_estimate" -> <<mTotalEstimate>>
    [] OTHER -> <<>>

(* A root worker's sites: the Progress and the insert of a drive without   *)
(* directories (279-286), the Progress of completion (359-363) and the     *)
(* insert (366). *)
RootSite(r) ==
  CASE roots[r].pc = "start" ->
         IF get_top_level_directories(coord.drives[r]) = <<>>
           THEN <<mFilesScanned, mTotalEstimate>> ELSE <<>>
    [] roots[r].pc = "finish" -> <<mFilesScanned, mTotalEstimate>>
    [] roots[r].pc = "mark" -> <<mCompleted>>
    [] OTHER -> <<>>

(* A sub-worker's sites: the Progress of the closure (310-314), the        *)
(* processed_dirs block (961-968), the error Progress (1006-1010), the     *)
(* block of a regular file (1020-1056) and the Progress of a Backup folder *)
(* (1064-1068).  SubSiteEstimateFirst reads the estimate before the count  *)
(* in the Progress of a Backup folder.                                     *)
SubSiteEstimateFirst(r, c) ==
  LET w == roots[r].workers[c]
  IN  CASE w.pc = "enter" -> <<mFilesScanned, mTotalEstimate>>
        [] w.pc = "check" -> <<mProcessed>>
        [] w.pc = "walk" ->
             IF Head(w.todo).is_file THEN <<mDrive(r), mFilesScanned, mTotalEstimate>>
             ELSE IF Head(w.todo).error THEN <<mFilesScanned, mTotalEstimate>>
             ELSE <<mTotalEstimate, mFilesScanned>>
        [] OTHER -> <<>>
SubSite(r, c) ==
  LET w == roots[r].workers[c]
  IN  CASE w.pc = "enter" -> <<mFilesScanned, mTotalEstimate>>
        [] w.pc = "check" -> <<mProcessed>>
        [] w.pc = "walk" ->
             IF Head(w.todo).is_file THEN <<mDrive(r), mFilesScanned, mTotalEstimate>>
             ELSE <<mFilesScanned, mTotalEstimate>>
        [] OTHER -> <<>>

ThreadIds ==
  {<<>>} \cup {<<r>> : r \in RootIds}
         \cup UNION {{<<r, c>> : c \in SubIds(r)} : r \in RootIds}
ThreadSite(t) ==
  IF t = <<>> THEN CoordSite
  ELSE IF Len(t) = 1 THEN RootSite(t[1])
  ELSE SubSite(t[1], t[2])
Taken(t) == Cardinality({i \in 1..Len(ThreadSite(t)) : ThreadSite(t)[i] \in Held(t)})
Released(t) == {p \in shared.held : ~(p[2] = t /\ p[1] \in Range(ThreadSite(t)))}

(* lock(): the thread takes the next mutex of its site, if it is free. *)
LockNext(t) ==
  /\ Taken(t) < Len(ThreadSite(t))
  /\ IsFree(ThreadSite(t)[Taken(t) + 1])
  /\ shared' = [shared EXCEPT !.held = @ \cup {<<ThreadSite(t)[Taken(t) + 1], t>>}]
  /\ UNCHANGED <<app, chan, coord, roots, dirs, files, user, hist>>

(* The coordinator past a site: its locks are released, but for the guard  *)
(* `completed`, which lives to the end of the closure. *)
LockedCoord ==
  /\ coord.pc \in {"estimate", "spawn", "join", "verify", "warn", "final", "final_estimate"}
  /\ Taken(<<>>) = Len(CoordSite)
  /\ CASE coord.pc = "estimate" ->
             /\ roots' = [r \in 1..NDrives |-> IdleRoot]
             /\ coord' = [coord EXCEPT !.pc = IF NDrives = 0 THEN "verify" ELSE "spawn", !.i = 1]
             /\ shared' = [shared EXCEPT !.held = Released(<<>>)]
       [] coord.pc = "spawn" ->
             /\ roots' = [roots EXCEPT ![coord.i].pc = "start"]
             /\ coord' = IF coord.i = NDrives THEN [coord EXCEPT !.pc = "join", !.i = 1]
                         ELSE [coord EXCEPT !.i = @ + 1]
             /\ shared' = [shared EXCEPT !.held = Released(<<>>)]
       [] coord.pc = "join" ->
             /\ JoinRoot(coord.i)
             /\ coord' = [coord EXCEPT !.i = IF coord.i = NDrives THEN 1 ELSE @ + 1,
                                       !.pc = IF coord.i = NDrives THEN "verify" ELSE @]
             /\ UNCHANGED <<roots, shared>>
       [] coord.pc = "verify" ->
             /\ coord' = [coord EXCEPT !.pc = IF missing_drives # <<>> THEN "warn" ELSE "final"]
             /\ UNCHANGED <<roots, shared>>
       [] coord.pc = "warn" ->
             /\ coord' = [coord EXCEPT !.pc = "final"]
             /\ shared' = [shared EXCEPT !.held = Released(<<>>)]
             /\ UNCHANGED roots
       [] coord.pc = "final" ->
             /\ coord' = [coord EXCEPT !.pc = "final_estimate"]
             /\ shared' = [shared EXCEPT !.held = Released(<<>>)]
             /\ UNCHANGED roots
       [] coord.pc = "final_estimate" ->
             /\ coord' = [coord EXCEPT !.pc = "done"]
             /\ shared' = [shared EXCEPT !.held = {p \in @ : p[2] # <<>>}]
             /\ UNCHANGED roots
  /\ UNCHANGED <<app, chan, dirs, files, user, hist>>

(* A root worker past a site, its spawn loop or a join.  thread::spawn may *)
(* panic in the spawn loop: the worker ends with the first k sub-workers   *)
(* spawned. *)
LockedRoot(r) ==
  /\ roots[r].pc \in {"start", "join", "finish", "mark"}
  /\ Taken(<<r>>) = Len(RootSite(r))
  /\ LET top_dirs == get_top_level_directories(coord.drives[r])
         workers == SpawnedWorkers(top_dirs, coord.max_threads)
     IN  CASE roots[r].pc = "start" /\ top_dirs = <<>> ->
                /\ roots' = [roots EXCEPT ![r].pc = "mark"]
                /\ shared' = [shared EXCEPT !.held = Released(<<r>>)]
           [] roots[r].pc = "start" /\ top_dirs # <<>> ->
                /\ \/ roots' = [roots EXCEPT ![r].workers = workers, ![r].j = 1,
                                              ![r].pc = "join"]
                   \/ \E k \in 1..(Len(workers) - 1) :
                        roots' = [roots EXCEPT ![r].workers = SubSeq(workers, 1, k),
                                               ![r].pc = "panicked"]
                /\ UNCHANGED shared
           [] roots[r].pc = "join" ->
                /\ Terminated(roots[r].workers[roots[r].j])
                /\ roots' = [roots EXCEPT
                      ![r].j = @ + 1,
                      ![r].pc = IF roots[r].j = Len(roots[r].workers) THEN "finish" ELSE @]
                /\ UNCHANGED shared
           [] roots[r].pc = "finish" ->
                /\ roots' = [roots EXCEPT ![r].pc = "mark"]
                /\ shared' = [shared EXCEPT !.held = Released(<<r>>)]
           [] roots[r].pc = "mark" ->
                /\ roots' = [roots EXCEPT ![r].pc = "done"]
                /\ shared' = [shared EXCEPT
                      !.held = Released(<<r>>),
                      !.completed_drives = @ \cup {DriveName(coord.drives[r])}]
  /\ UNCHANGED <<app, chan, coord, dirs, files, user, hist>>

(* A sub-worker past a site: the closure's Progress, the processed_dirs    *)
(* check with the start of the walk, or the loop body on an entry. *)
LockedSub(r, c) ==
  /\ roots[r].workers[c].pc \in {"enter", "check", "walk"}
  /\ Taken(<<r, c>>) = Len(SubSite(r, c))
  /\ LET w == roots[r].workers[c]
         dir == w.chunk[w.d]
         seen == dir \in shared.processed_dirs
         entries == WalkEntries(dir, coord.max_depth, files)
     IN  CASE w.pc = "enter" ->
                /\ roots' = [roots EXCEPT ![r].workers[c].pc = "check"]
                /\ shared' = [shared EXCEPT !.held = Released(<<r, c>>)]
           [] w.pc = "check" ->
                /\ roots' = [roots EXCEPT ![r].workers[c] =
                                IF seen \/ entries = <<>> THEN AfterDir(w)
                                ELSE [w EXCEPT !.todo = entries, !.pc = "walk"]]
                /\ shared' = [shared EXCEPT !.held = Released(<<r, c>>),
                                            !.processed_dirs = @ \cup {dir}]
           [] w.pc = "walk" ->
                /\ roots' = [roots EXCEPT ![r].workers[c] = AfterEntry(w)]
                /\ shared' = [shared EXCEPT !.held = Released(<<r, c>>)]
  /\ UNCHANGED <<app, chan, coord, dirs, files, user, hist>>

(* An error entry met less than 5 s after the last Progress: no lock. *)
SkipError(r, c) ==
  /\ roots[r].workers[c].pc = "walk"
  /\ Head(roots[r].workers[c].todo).error
  /\ Taken(<<r, c>>) = 0
  /\ roots' = [roots EXCEPT ![r].workers[c] = AfterEntry(roots[r].workers[c])]
  /\ UNCHANGED <<app, chan, coord, shared, dirs, files, user, hist>>

LockScenarios ==
  {[tree |-> TwoProjects, selected |-> {Home}, threads |-> MaxThreads],
   [tree |-> LockedDir, selected |-> {Root, Home}, threads |-> 1],
   [tree |-> OneProject, selected |-> {Home, Mnt}, threads |-> 1]}

InitLocks ==
  \E sc \in LockScenarios :
    /\ app = start_scan(FlBackupCleaner_new(SettingsOf(sc.selected, sc.threads, FALSE)))
    /\ chan = <<>>
    /\ coord = [SpawnedCoord(app) EXCEPT !.pc = "estimate"]
    /\ roots = <<>>
    /\ shared = [FreshShared EXCEPT
                   !.total_estimate = Len(coord.drives) * base_estimate_per_drive]
    /\ dirs = sc.tree
    /\ files = FilesIn(sc.tree)
    /\ user = <<>>
    /\ hist = FreshHist

NextLocks ==
  \/ \E t \in ThreadIds : LockNext(t)
  \/ LockedCoord
  \/ \E r \in RootIds : LockedRoot(r)
  \/ \E r \in RootIds : \E c \in SubIds(r) : LockedSub(r, c)
  \/ \E r \in RootIds : \E c \in SubIds(r) : SkipError(r, c)

SpecLocks == InitLocks /\ [][NextLocks]_vars

(* Every thread has ended. *)
AllEnded ==
  /\ coord.pc = "done"
  /\ \A r \in RootIds :
       /\ Terminated(roots[r])
       /\ \A c \in SubIds(r) : Terminated(roots[r].workers[c])
LockRank(m) ==
  CASE m[1] = "drive_files_scanned" -> 1
    [] m = mFilesScanned -> 2
    [] m = mTotalEstimate -> 3
    [] OTHER -> 0

(* C36: the threads never block each other for good: while a thread has    *)
(* not ended some thread can take a step; and a thread that takes a mutex  *)
(* while it holds others takes the per-root counter, the global counter    *)
(* and the estimate in that order, and processed_dirs only by itself.      *)
C36_NoDeadlock ==
  /\ [](AllEnded \/ ENABLED NextLocks)
  /\ [][\A p \in shared'.held \ shared.held : \A m \in Held(p[2]) :
          /\ LockRank(m) < LockRank(p[1])
          /\ mProcessed \notin {m, p[1]}]_vars
C36_Witness ==
  /\ Held(<<1, 1>>) = {mDrive(1), mFilesScanned, mTotalEstimate}
  /\ Len(roots[1].workers) = 2
  /\ roots[1].workers[2].pc = "walk"
  /\ Head(roots[1].workers[2].todo).is_file
  /\ Held(<<1, 2>>) = {}
  /\ ~ENABLED LockNext(<<1, 2>>)

ProgressIn(queue) == SelectSeq(queue, LAMBDA m : m.type = "Progress")
NonDecreasing(s) ==
  \A i \in 1..(Len(s) - 1) :
    /\ s[i].files_scanned <= s[i + 1].files_scanned
    /\ s[i].total_estimated <= s[i + 1].total_estimated

ScanOver ==
  /\ coord.pc \in {"idle", "auto", "done"}
  /\ \A r \in RootIds :
       /\ Terminated(roots[r])
       /\ \A c \in SubIds(r) : Terminated(roots[r].workers[c])

(* C38: one scan at a time.  start_scan leaves the struct as it is while   *)
(* is_scanning is set; a coordinator is spawned only by a click on the     *)
(* scan button in a frame that finds is_scanning false after polling, when *)
(* the threads of the scan before have ended; and is_scanning is reset     *)
(* only by a polling pass that takes Complete from the channel.            *)
C38_OneScanInFlight ==
  /\ [](app.is_scanning => start_scan(app) = app)
  /\ [][coord' # coord /\ coord'.pc = "begin" =>
          /\ ScanClicked
          /\ ~AfterMessages(app, chan).is_scanning
          /\ ScanOver]_vars
  /\ [][app.is_scanning /\ (~app'.is_scanning \/ ScanClicked) =>
          HasComplete(Drained(app, chan))]_vars
C38_Witness ==
  /\ app.is_scanning
  /\ app.files_scanned > 0
  /\ ~ScanOver
  /\ user # <<>> /\ Head(user).input = "scan"
  /\ ~ENABLED UpdateScanClick

====
